---- MODULE Spec2Model ----
(***************************************************************************)
(* Resumable harvest engine of steam_data_project: the checkpoint store    *)
(* (checkpoint.py), the harvest state (StorePageCheckpoint /               *)
(* SteamSpyCheckpoint) and the fetch loop of steam_store_scraper_v2.py and *)
(* steamspy_scraper.py, which share one structure; and the legacy scraper  *)
(* steam_api_scraper.py with its own three-file checkpointing.             *)
(***************************************************************************)
EXTENDS Integers, Sequences, FiniteSets, TLC

\* ---------------------------------------------------------------- bounds
MaxId == 3
MaxLen == 2
MaxRuns == 2
MaxClock == 2
\* scaled-down ScraperConfig values (defaults 500 and 20 in the source)
checkpoint_interval == 2
test_limit == 1
\* the calls of get_app_details followed for one id
MaxCalls == 4
\* records of an input file / items of apps_data
MaxRecords == 2
\* tags or review languages of one record
MaxRefs == 1
\* genres, categories, developers or publishers of one payload
MaxLookups == 2

\* ------------------------------------------------------ program constants
max_retries == 3

CHECKPOINT_NAME == "steam_store"
\* steam_api_scraper_v2.SteamScraper.CHECKPOINT_NAME
API_CHECKPOINT_NAME == "steam_api"
\* the files of the checkpoint directory: the store scraper's, the API
\* scraper's, the legacy scraper's three
LegacyNames == {"apps_data", "excluded_apps", "error_apps"}
Names == {CHECKPOINT_NAME, API_CHECKPOINT_NAME} \cup LegacyNames

Ids == 1..MaxId

RECURSIVE SeqsUpTo(_)
SeqsUpTo(n) ==
  IF n = 0 THEN {<<>>}
  ELSE LET shorter == SeqsUpTo(n - 1)
       IN shorter \cup {Append(s, x) : s \in {t \in shorter : Len(t) = n - 1}, x \in Ids}

\* app ids are opaque to the scrapers: a list stands for all its renamings,
\* so the ids are numbered in the order of their first appearance
FirstSeenOrder(s) ==
  \A k \in DOMAIN s : \A x \in 1..(s[k] - 1) : \E j \in 1..(k - 1) : s[j] = x

\* the lists of app ids a scraper can be handed: the short lists, repetitions
\* included, and the list of three ids of the end-to-end scenario
Universes == {s \in SeqsUpTo(MaxLen) : FirstSeenOrder(s)} \cup {<<1, 2, 3>>}

VARIABLES
  files,          \* checkpoint directory: name -> [exists, bytes]
  log,            \* the JSONL output file: appids of the appended records
  now,            \* the wall clock read by datetime.now()
  runs,           \* number of scraper processes started so far
  handed,         \* the app id list of this job (app_ids argument / database)
  resp,           \* per id: fetch result pinned for the job, or "free"
  pc,             \* position of the running scraper, "stopped" if none
  ret,            \* where _save_checkpoint returns to: "sleep" or "summary"
  how,            \* how the loop ended / how the last process ended
  test_mode,      \* config.test_mode of the running scraper
  checkpoint,     \* self.checkpoint, the in-memory harvest state
  pending,        \* the local list `pending` of run()
  i,              \* the loop counter of run(); appid = pending[i]
  attempt,        \* the attempt counter of get_store_data
  data,           \* what get_store_data handed to the loop
  response,       \* the answer of the last HTTP exchange of the fetch
  durable,        \* a save under CHECKPOINT_NAME has completed, no delete since
  stored_before,  \* history, kept as .tracking says: the app_ids argument
                  \* the running process was constructed with, or the checkpoint
                  \* directory as the running test-mode process found it
  legacy,         \* the process of the legacy scraper (steam_api_scraper.py)
  api,            \* the process of the API scraper (steam_api_scraper_v2.py)
  norm,           \* the loader process (insert_*.py): its input and prepared rows
  pace            \* the HTTP requests of a run and the time slept between them

vars == <<files, log, now, runs, handed, resp, pc, ret, how, test_mode,
          checkpoint, pending, i, attempt, data, response, durable,
          stored_before, legacy, api, norm, pace>>

\* ------------------------------------------------------------ helpers
Min(S) == CHOOSE x \in S : \A y \in S : x <= y

RECURSIVE SetToSeq(_)
SetToSeq(S) == IF S = {} THEN <<>> ELSE <<Min(S)>> \o SetToSeq(S \ {Min(S)})

SeqToSet(s) == {s[k] : k \in DOMAIN s}

\* list(s) of a set s: the elements once each, in an order python chooses
Orderings(S) ==
  {s \in [1..Cardinality(S) -> S] : \A m, n \in DOMAIN s : s[m] = s[n] => m = n}

RECURSIVE DictItems(_)
DictItems(f) ==
  IF DOMAIN f = {} THEN <<>>
  ELSE LET k == Min(DOMAIN f)
       IN <<<<k, f[k]>>>> \o DictItems([x \in (DOMAIN f) \ {k} |-> f[x]])

ItemsToDict(s) ==
  [k \in {s[n][1] : n \in DOMAIN s} |->
     (CHOOSE p \in SeqToSet(s) : p[1] = k)[2]]

\* the value of a timestamp that is None
None == -1

\* the clock runs from 0 and stops at MaxClock
Tick == IF now < MaxClock THEN now + 1 ELSE now

\* ------------------------------------------------- checkpoint.py: values
NoFile == [exists |-> FALSE, bytes |-> <<>>]

\* StorePageCheckpoint() / SteamSpyCheckpoint(): the dataclass defaults
StorePageCheckpoint ==
  [type |-> "StorePageCheckpoint", started_at |-> None,
   last_saved_at |-> None,
   app_ids_to_scrape |-> <<>>, completed_ids |-> {}, no_data_ids |-> {},
   failed_ids |-> <<>>]

\* steam_api_scraper.SteamScraper.__init__: no process yet, empty partitions
\* (apps_data is held by its keys); fetched keeps the ids get_app_details was
\* called for by any process of the job
LegacyScraper ==
  [pc |-> "stopped", test_mode |-> FALSE, apps_data |-> {},
   excluded_apps |-> {}, error_apps |-> {}, remaining |-> <<>>, i |-> 0,
   ret |-> "none", fetched |-> {}]

\* SteamAPICheckpoint(): the dataclass defaults (apps_data is held by its keys)
SteamAPICheckpoint ==
  [type |-> "SteamAPICheckpoint", started_at |-> None, last_saved_at |-> None,
   apps_data |-> {}, excluded_apps |-> {}, error_apps |-> {}]

\* steam_api_scraper_v2.SteamScraper: no process yet; calls counts the calls
\* of get_app_details made for the id in hand, summary tells that
\* _print_summary has run
SteamScraper ==
  [pc |-> "stopped", test_mode |-> FALSE, checkpoint |-> SteamAPICheckpoint,
   all_apps |-> <<>>, all_app_ids |-> {}, remaining |-> <<>>, i |-> 0,
   calls |-> 0, ret |-> "none", summary |-> FALSE]

\* a plain dict, the older checkpoint format
DictBlob == [type |-> "dict", keys |-> {1}]

\* pickle.dump: the byte stream, as a sequence of chunks
\* (class name; BaseCheckpoint fields; the fields of the subclass)
Pickle(v) ==
  IF v.type = "StorePageCheckpoint"
  THEN <<v.type,
         <<v.started_at, v.last_saved_at>>,
         <<v.app_ids_to_scrape, SetToSeq(v.completed_ids),
           SetToSeq(v.no_data_ids), DictItems(v.failed_ids)>>>>
  ELSE IF v.type = "SteamAPICheckpoint"
  THEN <<v.type,
         <<v.started_at, v.last_saved_at>>,
         <<SetToSeq(v.apps_data), SetToSeq(v.excluded_apps),
           SetToSeq(v.error_apps)>>>>
  ELSE <<v.type, SetToSeq(v.keys)>>

ChunkCount(tag) ==
  IF tag \in {"StorePageCheckpoint", "SteamAPICheckpoint"} THEN 3 ELSE 2

\* whether pickle.load gets through the stream
Readable(b) == Len(b) > 0 /\ Len(b) = ChunkCount(b[1])

\* pickle.load of a complete stream
Unpickle(b) ==
  IF b[1] = "StorePageCheckpoint"
  THEN [type |-> b[1], started_at |-> b[2][1], last_saved_at |-> b[2][2],
        app_ids_to_scrape |-> b[3][1], completed_ids |-> SeqToSet(b[3][2]),
        no_data_ids |-> SeqToSet(b[3][3]), failed_ids |-> ItemsToDict(b[3][4])]
  ELSE IF b[1] = "SteamAPICheckpoint"
  THEN [type |-> b[1], started_at |-> b[2][1], last_saved_at |-> b[2][2],
        apps_data |-> SeqToSet(b[3][1]), excluded_apps |-> SeqToSet(b[3][2]),
        error_apps |-> SeqToSet(b[3][3])]
  ELSE [type |-> b[1], keys |-> SeqToSet(b[2])]

\* CheckpointManager.load(name, expected_type) on the directory dir;
\* expected_type "None" is the call without a type
LoadFrom(dir, name, expected_type) ==
  IF ~dir[name].exists THEN [kind |-> "None"]
  ELSE IF ~Readable(dir[name].bytes)
       THEN [kind |-> "raise", error |-> "UnpicklingError"]
       ELSE LET d == Unpickle(dir[name].bytes)
            IN IF expected_type # "None" /\ d.type # expected_type
               THEN [kind |-> "raise", error |-> "TypeError"]
               ELSE [kind |-> "value", value |-> d]

load(name, expected_type) == LoadFrom(files, name, expected_type)

\* CheckpointManager.exists(name)
exists(name) == files[name].exists

\* CheckpointManager.list_checkpoints(): the stems of the *.pkl files
list_checkpoints == {name \in Names : files[name].exists}

\* ---------------------------------------------- StorePageCheckpoint methods
keys(f) == DOMAIN f

get_pending(c) ==
  LET done == c.completed_ids \cup c.no_data_ids \cup keys(c.failed_ids)
  IN SelectSeq(c.app_ids_to_scrape, LAMBDA appid : appid \notin done)

total(c) == Len(c.app_ids_to_scrape)

processed(c) ==
  Cardinality(c.completed_ids) + Cardinality(c.no_data_ids)
    + Cardinality(keys(c.failed_ids))

remaining(c) == total(c) - processed(c)

\* variant: every call stamps the start anew
mark_started_Always(c) == [c EXCEPT !.started_at = now]

mark_started(c) ==
  IF c.started_at = None THEN [c EXCEPT !.started_at = now] ELSE c

Take(s, n) == SubSeq(s, 1, IF Len(s) < n THEN Len(s) ELSE n)


\* ------------------------------------------------ SteamStoreAPI.get_store_data
\* what one HTTP exchange can bring back
Answers == {"200_data", "200_empty", "404", "429", "403", "other_status",
            "Timeout", "RequestException"}

\* one pass through the body of `for attempt in range(max_retries)` with
\* answer ans; "retry" is `continue`, the last `continue` falls out of the
\* loop into the final raise
get_store_data(att, ans) ==
  CASE ans = "200_data" -> "payload"
    [] ans \in {"200_empty", "404", "other_status"} -> "no_data"
    [] ans \in {"429", "403", "Timeout"} ->
         IF att + 1 < max_retries THEN "retry" ELSE "Max retries exceeded"
    [] ans = "RequestException" -> "Request error"

Reasons == {"Max retries exceeded", "Request error"}

\* the three results the loop tells apart
Outcome(d) == IF d \in Reasons THEN "fatal" ELSE d

\* -------------------------------------------------------------- the process
Init ==
  /\ files = [n \in Names |-> NoFile]
  /\ log = <<>>
  /\ now = 0
  /\ runs = 0
  /\ handed \in Universes
  /\ resp = [id \in Ids |-> "free"]
  /\ pc = "stopped"
  /\ ret = "none"
  /\ how = "none"
  /\ test_mode = FALSE
  /\ checkpoint = StorePageCheckpoint
  /\ pending = <<>>
  /\ i = 0
  /\ attempt = 0
  /\ data = "none"
  /\ response = "none"
  /\ durable = FALSE
  /\ stored_before = [tracking |-> "none", app_ids |-> <<>>,
                      dir |-> [n \in Names |-> NoFile]]
  /\ legacy = LegacyScraper
  /\ api = SteamScraper
  /\ norm = [pc |-> "none"]
  /\ pace = [pc |-> "none"]

\* the same job with the result of fetching an id pinned once it is known
InitFixed ==
  /\ files = [n \in Names |-> NoFile]
  /\ log = <<>>
  /\ now = 0
  /\ runs = 0
  /\ handed \in Universes
  /\ resp = [id \in Ids |-> "unset"]
  /\ pc = "stopped"
  /\ ret = "none"
  /\ how = "none"
  /\ test_mode = FALSE
  /\ checkpoint = StorePageCheckpoint
  /\ pending = <<>>
  /\ i = 0
  /\ attempt = 0
  /\ data = "none"
  /\ response = "none"
  /\ durable = FALSE
  /\ stored_before = [tracking |-> "none", app_ids |-> <<>>,
                      dir |-> [n \in Names |-> NoFile]]
  /\ legacy = LegacyScraper
  /\ api = SteamScraper
  /\ norm = [pc |-> "none"]
  /\ pace = [pc |-> "none"]

\* the same job with the history of test-mode processes kept
InitTestMode ==
  /\ files = [n \in Names |-> NoFile]
  /\ log = <<>>
  /\ now = 0
  /\ runs = 0
  /\ handed \in Universes
  /\ resp = [id \in Ids |-> "free"]
  /\ pc = "stopped"
  /\ ret = "none"
  /\ how = "none"
  /\ test_mode = FALSE
  /\ checkpoint = StorePageCheckpoint
  /\ pending = <<>>
  /\ i = 0
  /\ attempt = 0
  /\ data = "none"
  /\ response = "none"
  /\ durable = FALSE
  /\ stored_before = [tracking |-> "dir", app_ids |-> <<>>,
                      dir |-> [n \in Names |-> NoFile]]
  /\ legacy = LegacyScraper
  /\ api = SteamScraper
  /\ norm = [pc |-> "none"]
  /\ pace = [pc |-> "none"]

\* the job with pinned fetch results and the constructor arguments kept
InitArgs ==
  /\ files = [n \in Names |-> NoFile]
  /\ log = <<>>
  /\ now = 0
  /\ runs = 0
  /\ handed \in Universes
  /\ resp = [id \in Ids |-> "unset"]
  /\ pc = "stopped"
  /\ ret = "none"
  /\ how = "none"
  /\ test_mode = FALSE
  /\ checkpoint = StorePageCheckpoint
  /\ pending = <<>>
  /\ i = 0
  /\ attempt = 0
  /\ data = "none"
  /\ response = "none"
  /\ durable = FALSE
  /\ stored_before = [tracking |-> "app_ids", app_ids |-> <<>>,
                      dir |-> [n \in Names |-> NoFile]]
  /\ legacy = LegacyScraper
  /\ api = SteamScraper
  /\ norm = [pc |-> "none"]
  /\ pace = [pc |-> "none"]

\* the process is gone and its memory with it
Stopped(h) ==
  /\ pc' = "stopped"
  /\ how' = h
  /\ ret' = "none"
  /\ test_mode' = FALSE
  /\ checkpoint' = StorePageCheckpoint
  /\ pending' = <<>>
  /\ i' = 0
  /\ attempt' = 0
  /\ data' = "none"
  /\ response' = "none"
  /\ stored_before' = [stored_before EXCEPT !.dir = [n \in Names |-> NoFile],
                                           !.app_ids = <<>>]

\* variant: a checkpoint that fails to load is replaced by a fresh one
_load_checkpoint_FallsBack(tm, app_ids) ==
  LET fresh == [StorePageCheckpoint EXCEPT !.app_ids_to_scrape = app_ids]
      existing == load(CHECKPOINT_NAME, "StorePageCheckpoint")
  IN IF tm THEN [kind |-> "value", value |-> fresh]
     ELSE IF existing.kind = "value" THEN existing
     ELSE [kind |-> "value", value |-> fresh]

\* SteamStoreScraper._load_checkpoint(app_ids) under config.test_mode = tm
_load_checkpoint(tm, app_ids) ==
  LET fresh == [StorePageCheckpoint EXCEPT !.app_ids_to_scrape = app_ids]
      existing == load(CHECKPOINT_NAME, "StorePageCheckpoint")
  IN IF tm THEN [kind |-> "value", value |-> fresh]
     ELSE IF existing.kind = "raise" THEN existing
     ELSE IF existing.kind = "value" THEN existing
     ELSE [kind |-> "value", value |-> fresh]

\* variant: an app_ids argument replaces the universe of a loaded checkpoint
Construct_KeepsArgument(tm, app_ids) ==
  /\ pc = "stopped"
  /\ runs < MaxRuns
  /\ runs' = runs + 1
  /\ LET r == _load_checkpoint(tm, app_ids)
     IN IF r.kind = "raise"
        THEN Stopped(r.error)
        ELSE /\ checkpoint' = IF app_ids # <<>>
                            THEN [r.value EXCEPT !.app_ids_to_scrape = app_ids]
                            ELSE r.value
             /\ test_mode' = tm
             /\ pc' = "ready"
             /\ how' = "none"
             /\ stored_before' =
                  IF tm /\ stored_before.tracking = "dir"
                  THEN [stored_before EXCEPT !.dir = files]
                  ELSE IF stored_before.tracking = "app_ids"
                  THEN [stored_before EXCEPT !.app_ids = app_ids]
                  ELSE stored_before
             /\ UNCHANGED <<ret, pending, i, attempt, data, response>>
  /\ UNCHANGED <<files, log, now, handed, resp, durable, legacy, api, norm, pace>>

\* SteamStoreScraper(config, app_ids): a new process constructs the scraper
Construct(tm, app_ids) ==
  /\ pc = "stopped"
  /\ runs < MaxRuns
  /\ runs' = runs + 1
  /\ LET r == _load_checkpoint(tm, app_ids)
     IN IF r.kind = "raise"
        THEN Stopped(r.error)
        ELSE /\ checkpoint' = r.value
             /\ test_mode' = tm
             /\ pc' = "ready"
             /\ how' = "none"
             /\ stored_before' =
                  IF tm /\ stored_before.tracking = "dir"
                  THEN [stored_before EXCEPT !.dir = files]
                  ELSE IF stored_before.tracking = "app_ids"
                  THEN [stored_before EXCEPT !.app_ids = app_ids]
                  ELSE stored_before
             /\ UNCHANGED <<ret, pending, i, attempt, data, response>>
  /\ UNCHANGED <<files, log, now, handed, resp, durable, legacy, api, norm, pace>>

\* run() up to the loop: mark_started, the universe, the pending list
RunStart ==
  /\ pc = "ready"
  /\ \E db_ok \in BOOLEAN :
       LET c1 == mark_started(checkpoint)
           need == c1.app_ids_to_scrape = <<>>
           c2 == IF need /\ db_ok THEN [c1 EXCEPT !.app_ids_to_scrape = handed]
                 ELSE c1
           p == get_pending(c2)
       IN /\ now' = IF checkpoint.started_at = None THEN Tick ELSE now
          /\ checkpoint' = c2
          /\ IF need /\ ~db_ok
             THEN /\ pc' = "done" /\ how' = "no_ids"
                  /\ UNCHANGED <<pending, i>>
             ELSE IF p = <<>>
             THEN /\ pc' = "done" /\ how' = "noop"
                  /\ UNCHANGED <<pending, i>>
             ELSE /\ pending' = IF test_mode THEN Take(p, test_limit) ELSE p
                  /\ i' = 1
                  /\ pc' = "fetch"
                  /\ how' = "none"
  /\ UNCHANGED <<files, log, runs, handed, resp, ret, test_mode, attempt,
                 data, response, durable, stored_before, legacy, api, norm, pace>>

\* one HTTP exchange of self.api.get_store_data(appid)
Fetch ==
  /\ pc = "fetch"
  /\ \E ans \in Answers :
       LET d == get_store_data(attempt, ans)
           appid == pending[i]
       IN IF d = "retry"
          THEN /\ attempt' = attempt + 1
               /\ UNCHANGED <<pc, data, resp, response>>
          ELSE /\ resp[appid] \in {"free", "unset", Outcome(d)}
               /\ resp' = IF resp[appid] = "unset"
                          THEN [resp EXCEPT ![appid] = Outcome(d)] ELSE resp
               /\ data' = d
               /\ response' = ans
               /\ attempt' = 0
               /\ pc' = "got"
  /\ UNCHANGED <<files, log, now, runs, handed, ret, how, test_mode,
                 checkpoint, pending, i, durable, stored_before, legacy, api, norm, pace>>

\* `if i % checkpoint_interval == 0: self._save_checkpoint()`, else the sleep
AfterStep ==
  IF i % checkpoint_interval = 0
  THEN pc' = "save_open" /\ ret' = "sleep"
  ELSE pc' = "sleep" /\ ret' = ret

\* variant: a fatal error is filed with the ids without data
Classified_FatalAsNoData(c, appid, d) ==
  IF d = "no_data" \/ d \in Reasons
  THEN [c EXCEPT !.no_data_ids = @ \cup {appid}]
  ELSE c

\* the harvest state after the loop body has classified appid with result d
\* (a payload is marked by Mark, after its record is written)
Classified(c, appid, d) ==
  IF d = "no_data" THEN [c EXCEPT !.no_data_ids = @ \cup {appid}]
  ELSE IF d \in Reasons
  THEN [c EXCEPT !.failed_ids =
          [x \in keys(@) \cup {appid} |-> IF x = appid THEN d ELSE @[x]]]
  ELSE c

\* the loop body after the fetch: _append_result, no_data_ids.add, failed_ids[..]
Classify ==
  /\ pc = "got"
  /\ LET appid == pending[i]
     IN IF data = "payload"
        THEN /\ log' = Append(log, appid)
             /\ pc' = "mark"
             /\ UNCHANGED <<checkpoint, ret>>
        ELSE /\ checkpoint' = Classified(checkpoint, appid, data)
             /\ AfterStep
             /\ UNCHANGED log
  /\ data' = IF data = "payload" THEN data ELSE "none"
  /\ response' = "none"
  /\ UNCHANGED <<files, now, runs, handed, resp, how, test_mode, pending, i,
                 attempt, durable, stored_before, legacy, api, norm, pace>>

\* self.checkpoint.completed_ids.add(appid)
Mark ==
  /\ pc = "mark"
  /\ checkpoint' = [checkpoint EXCEPT !.completed_ids = @ \cup {pending[i]}]
  /\ data' = "none"
  /\ AfterStep
  /\ UNCHANGED <<files, log, now, runs, handed, resp, how, test_mode, pending,
                 i, attempt, response, durable, stored_before, legacy, api, norm, pace>>

\* time.sleep(self.delay), then the next id or the end of the loop
Sleep ==
  /\ pc = "sleep"
  /\ IF i < Len(pending)
     THEN /\ i' = i + 1 /\ pc' = "fetch" /\ UNCHANGED <<ret, how>>
     ELSE /\ pc' = "save_open" /\ ret' = "summary" /\ how' = "exhausted"
          /\ UNCHANGED i
  /\ UNCHANGED <<files, log, now, runs, handed, resp, test_mode, checkpoint,
                 pending, attempt, data, response, durable, stored_before, legacy, api, norm, pace>>

\* CheckpointManager.save up to open(path, 'wb'): the timestamp is set on the
\* object, the file is created or truncated
SaveOpen ==
  /\ pc = "save_open"
  /\ checkpoint' = [checkpoint EXCEPT !.last_saved_at = now]
  /\ now' = Tick
  /\ files' = [files EXCEPT ![CHECKPOINT_NAME] = [exists |-> TRUE, bytes |-> <<>>]]
  /\ pc' = "save_dump"
  /\ UNCHANGED <<log, runs, handed, resp, ret, how, test_mode, pending, i,
                 attempt, data, response, durable, stored_before, legacy, api, norm, pace>>

\* variant: the timestamp is refreshed once more after the dump
SaveDump_StampAfterDump ==
  /\ pc = "save_dump"
  /\ files' = [files EXCEPT ![CHECKPOINT_NAME].bytes = Pickle(checkpoint)]
  /\ checkpoint' = [checkpoint EXCEPT !.last_saved_at = now]
  /\ pc' = ret
  /\ durable' = TRUE
  /\ UNCHANGED <<log, now, runs, handed, resp, ret, how, test_mode,
                 pending, i, attempt, data, response, stored_before, legacy, api, norm, pace>>

\* pickle.dump and the close of the file; _save_checkpoint returns
SaveDump ==
  /\ pc = "save_dump"
  /\ files' = [files EXCEPT ![CHECKPOINT_NAME].bytes = Pickle(checkpoint)]
  /\ pc' = ret
  /\ durable' = TRUE
  /\ UNCHANGED <<log, now, runs, handed, resp, ret, how, test_mode, checkpoint,
                 pending, i, attempt, data, response, stored_before, legacy, api, norm, pace>>

\* self._print_summary() in the finally block; run() returns
Summary ==
  /\ pc = "summary"
  /\ pc' = "done"
  /\ UNCHANGED <<files, log, now, runs, handed, resp, ret, how, test_mode,
                 checkpoint, pending, i, attempt, data, response, durable,
                 stored_before, legacy, api, norm, pace>>

InTry == pc \in {"fetch", "got", "mark", "sleep"}
           \/ (pc \in {"save_open", "save_dump"} /\ ret = "sleep")

\* variant: the interruption is caught by the inner handler and the id in
\* flight is filed as failed
Interrupt_MarksFailed ==
  /\ InTry
  /\ checkpoint' = IF pc \in {"fetch", "got"}
                   THEN Classified(checkpoint, pending[i], "Request error")
                   ELSE checkpoint
  /\ pc' = "save_open"
  /\ ret' = "summary"
  /\ how' = "interrupted"
  /\ attempt' = 0
  /\ data' = "none"
  /\ response' = "none"
  /\ UNCHANGED <<files, log, now, runs, handed, resp, test_mode,
                 pending, i, durable, stored_before, legacy, api, norm, pace>>

\* KeyboardInterrupt inside the try block: `except KeyboardInterrupt`, finally
Interrupt ==
  /\ InTry
  /\ pc' = "save_open"
  /\ ret' = "summary"
  /\ how' = "interrupted"
  /\ attempt' = 0
  /\ data' = "none"
  /\ response' = "none"
  /\ UNCHANGED <<files, log, now, runs, handed, resp, test_mode, checkpoint,
                 pending, i, durable, stored_before, legacy, api, norm, pace>>

\* KeyboardInterrupt outside the try block (before the loop, or inside the
\* finally block): it leaves run() as an exception
InterruptOutside ==
  /\ pc \in {"ready", "summary"} \/ (pc \in {"save_open", "save_dump"} /\ ret = "summary")
  /\ Stopped("none")
  /\ UNCHANGED <<files, log, now, runs, handed, resp, durable, legacy, api, norm, pace>>

\* the process is killed (SIGKILL, power loss); a dump in progress leaves
\* the part of the stream that reached the disk
Kill ==
  /\ pc \notin {"stopped", "done"}
  /\ IF pc = "save_dump"
     THEN \E k \in 0..(Len(Pickle(checkpoint)) - 1) :
            files' = [files EXCEPT ![CHECKPOINT_NAME].bytes =
                        SubSeq(Pickle(checkpoint), 1, k)]
     ELSE UNCHANGED files
  /\ Stopped("none")
  /\ UNCHANGED <<log, now, runs, handed, resp, durable, legacy, api, norm, pace>>

\* main() returns
ProcessExit ==
  /\ pc = "done"
  /\ Stopped("none")
  /\ UNCHANGED <<files, log, now, runs, handed, resp, durable, legacy, api, norm, pace>>

\* another program of the project stores a plain dict under the name:
\* CheckpointManager.save(name, data) with data of the older format
ClientSave ==
  /\ pc = "stopped"
  /\ files' = [files EXCEPT ![CHECKPOINT_NAME] =
                 [exists |-> TRUE, bytes |-> Pickle(DictBlob)]]
  /\ durable' = TRUE
  /\ UNCHANGED <<log, now, runs, handed, resp, pc, ret, how, test_mode,
                 checkpoint, pending, i, attempt, data, response, stored_before, legacy, api, norm, pace>>

\* CheckpointManager.delete(name)
delete ==
  /\ pc = "stopped"
  /\ files[CHECKPOINT_NAME].exists
  /\ files' = [files EXCEPT ![CHECKPOINT_NAME] = NoFile]
  /\ durable' = FALSE
  /\ UNCHANGED <<log, now, runs, handed, resp, pc, ret, how, test_mode,
                 checkpoint, pending, i, attempt, data, response, stored_before, legacy, api, norm, pace>>

Start == \E tm \in BOOLEAN, app_ids \in {<<>>, handed} : Construct(tm, app_ids)

Next ==
  \/ Start
  \/ RunStart
  \/ Fetch
  \/ Classify
  \/ Mark
  \/ Sleep
  \/ SaveOpen
  \/ SaveDump
  \/ Summary
  \/ Interrupt
  \/ InterruptOutside
  \/ Kill
  \/ ProcessExit
  \/ ClientSave
  \/ delete

Spec == Init /\ [][Next]_vars

SpecFixed == InitFixed /\ [][Next]_vars

SpecTestMode == InitTestMode /\ [][Next]_vars

\* a full-scale process of the job is constructed with another list than the
\* job's: no list of Universes is <<2, 1>>, which has the ids of <<1, 2>> in
\* another order
OtherList == <<2, 1>>

StartOther == Construct(FALSE, OtherList)

NextArgs == Next \/ StartOther

SpecArgs == InitArgs /\ [][NextArgs]_vars

\* variant: the failure of a periodic save is caught and the loop goes on
SaveFails_Swallowed ==
  /\ pc \in {"save_open", "save_dump"}
  /\ IF pc = "save_dump"
     THEN \E k \in 0..(Len(Pickle(checkpoint)) - 1) :
            files' = [files EXCEPT ![CHECKPOINT_NAME].bytes =
                        SubSeq(Pickle(checkpoint), 1, k)]
     ELSE UNCHANGED files
  /\ now' = IF pc = "save_open" THEN Tick ELSE now
  /\ IF ret = "sleep"
     THEN /\ checkpoint' = IF pc = "save_open"
                           THEN [checkpoint EXCEPT !.last_saved_at = now]
                           ELSE checkpoint
          /\ pc' = "sleep"
          /\ how' = "OSError"
          /\ UNCHANGED <<ret, test_mode, pending, i, attempt, data, response,
                         stored_before>>
     ELSE Stopped("OSError")
  /\ UNCHANGED <<log, runs, handed, resp, durable, legacy, api, norm, pace>>

\* CheckpointManager.save raises an I/O error: open(path, 'wb') fails and
\* leaves the file alone, or pickle.dump fails part-way. Inside the try block
\* the exception passes `except KeyboardInterrupt` into the finally block,
\* which saves again; inside the finally block it leaves run()
SaveFails ==
  /\ pc \in {"save_open", "save_dump"}
  /\ IF pc = "save_dump"
     THEN \E k \in 0..(Len(Pickle(checkpoint)) - 1) :
            files' = [files EXCEPT ![CHECKPOINT_NAME].bytes =
                        SubSeq(Pickle(checkpoint), 1, k)]
     ELSE UNCHANGED files
  /\ now' = IF pc = "save_open" THEN Tick ELSE now
  /\ IF ret = "sleep"
     THEN /\ checkpoint' = IF pc = "save_open"
                           THEN [checkpoint EXCEPT !.last_saved_at = now]
                           ELSE checkpoint
          /\ pc' = "save_open"
          /\ ret' = "summary"
          /\ how' = "OSError"
          /\ UNCHANGED <<test_mode, pending, i, attempt, data, response,
                         stored_before>>
     ELSE Stopped("OSError")
  /\ UNCHANGED <<log, runs, handed, resp, durable, legacy, api, norm, pace>>

NextIO == Next \/ SaveFails

SpecIO == InitFixed /\ [][NextIO]_vars

\* ------------------------------------------- steam_api_scraper.py (legacy)
store_scraper_vars ==
  <<log, now, handed, resp, pc, ret, how, test_mode, checkpoint, pending, i,
    attempt, data, response, durable, stored_before, api, norm, pace>>

\* `self.checkpoint.load(filename) or default`, the value held by its keys
LegacyLoad(filename) ==
  LET r == LoadFrom(files, filename, "None")
  IN IF r.kind = "value" THEN r.value.keys ELSE {}

LegacyReadable(filename) == LoadFrom(files, filename, "None").kind # "raise"

\* CheckpointManager.save(data, filename) of steam_api_scraper.py
LegacySaved(dir, filename, type, ids) ==
  [dir EXCEPT ![filename] =
     [exists |-> TRUE, bytes |-> Pickle([type |-> type, keys |-> ids])]]

\* get_remaining_apps: list(all_ids - processed), in the iteration order of
\* the set
get_remaining_apps(all_ids, l) ==
  SetToSeq(all_ids \ (l.apps_data \cup l.excluded_apps \cup l.error_apps))

\* run() up to the loop: load_progress, the app list, the remaining ids
LegacyStart ==
  /\ legacy.pc \in {"stopped", "done", "interrupted"}
  /\ runs < MaxRuns
  /\ runs' = runs + 1
  /\ \A n \in LegacyNames : LegacyReadable(n)
  /\ \E tm \in BOOLEAN :
       LET l0 == IF tm THEN LegacyScraper
                 ELSE [LegacyScraper EXCEPT
                         !.apps_data = LegacyLoad("apps_data"),
                         !.excluded_apps = LegacyLoad("excluded_apps"),
                         !.error_apps = LegacyLoad("error_apps")]
           rem == get_remaining_apps(SeqToSet(handed), l0)
       IN legacy' = [l0 EXCEPT !.pc = "loop", !.test_mode = tm,
                               !.remaining = IF tm THEN Take(rem, test_limit)
                                             ELSE rem,
                               !.fetched = legacy.fetched]
  /\ UNCHANGED files
  /\ UNCHANGED store_scraper_vars

\* one pass through the loop body: get_app_details and the three branches
LegacyBody ==
  /\ legacy.pc = "loop"
  /\ legacy.i < Len(legacy.remaining)
  /\ \E details \in {"None", "not_success", "data"} :
       LET appid == legacy.remaining[legacy.i + 1]
           l1 == CASE details = "None" ->
                        [legacy EXCEPT !.error_apps = @ \cup {appid}]
                   [] details = "not_success" ->
                        [legacy EXCEPT !.excluded_apps = @ \cup {appid}]
                   [] details = "data" ->
                        [legacy EXCEPT !.apps_data = @ \cup {appid}]
           save == ~legacy.test_mode /\ (legacy.i + 1) % checkpoint_interval = 0
       IN legacy' = [l1 EXCEPT !.i = @ + 1,
                               !.pc = IF save THEN "save_apps_data" ELSE "loop",
                               !.ret = IF save THEN "loop" ELSE @,
                               !.fetched = @ \cup {appid}]
  /\ UNCHANGED <<files, runs>>
  /\ UNCHANGED store_scraper_vars

\* the loop is exhausted: the final save_progress()
LegacyLoopEnd ==
  /\ legacy.pc = "loop"
  /\ legacy.i = Len(legacy.remaining)
  /\ legacy' = [legacy EXCEPT !.pc = "save_apps_data", !.ret = "summary"]
  /\ UNCHANGED <<files, runs>>
  /\ UNCHANGED store_scraper_vars

\* save_progress: self.checkpoint.save(self.apps_data, "apps_data"), which is
\* all that test mode saves
LegacySaveAppsData ==
  /\ legacy.pc = "save_apps_data"
  /\ files' = LegacySaved(files, "apps_data", "dict", legacy.apps_data)
  /\ legacy' = [legacy EXCEPT !.pc = IF legacy.test_mode THEN legacy.ret
                                     ELSE "save_excluded_apps"]
  /\ UNCHANGED runs
  /\ UNCHANGED store_scraper_vars

\* save_progress: self.checkpoint.save(self.excluded_apps, "excluded_apps")
LegacySaveExcluded ==
  /\ legacy.pc = "save_excluded_apps"
  /\ files' = LegacySaved(files, "excluded_apps", "set", legacy.excluded_apps)
  /\ legacy' = [legacy EXCEPT !.pc = "save_error_apps"]
  /\ UNCHANGED runs
  /\ UNCHANGED store_scraper_vars

\* save_progress: self.checkpoint.save(self.error_apps, "error_apps")
LegacySaveErrors ==
  /\ legacy.pc = "save_error_apps"
  /\ files' = LegacySaved(files, "error_apps", "set", legacy.error_apps)
  /\ legacy' = [legacy EXCEPT !.pc = legacy.ret]
  /\ UNCHANGED runs
  /\ UNCHANGED store_scraper_vars

\* the summary; run() returns
LegacySummary ==
  /\ legacy.pc = "summary"
  /\ legacy' = [legacy EXCEPT !.pc = "done"]
  /\ UNCHANGED <<files, runs>>
  /\ UNCHANGED store_scraper_vars

\* KeyboardInterrupt anywhere in run(): there is no handler, the exception
\* leaves run(); the partitions stay as they were at that moment
LegacyInterrupt ==
  /\ legacy.pc \in {"loop", "save_apps_data", "save_excluded_apps",
                    "save_error_apps", "summary"}
  /\ legacy' = [legacy EXCEPT !.pc = "interrupted"]
  /\ UNCHANGED <<files, runs>>
  /\ UNCHANGED store_scraper_vars

NextLegacy ==
  \/ LegacyStart
  \/ LegacyBody
  \/ LegacyLoopEnd
  \/ LegacySaveAppsData
  \/ LegacySaveExcluded
  \/ LegacySaveErrors
  \/ LegacySummary
  \/ LegacyInterrupt

SpecLegacy == Init /\ [][NextLegacy]_vars

\* ------------------------------------------------ steam_api_scraper_v2.py
\* what the API scraper leaves alone
api_frame ==
  <<log, handed, resp, pc, ret, how, test_mode, checkpoint, pending, i,
    attempt, data, response, durable, stored_before, legacy, norm, pace>>

\* SteamAPICheckpoint: the ids in apps_data, excluded_apps or error_apps
api_processed(c) == c.apps_data \cup c.excluded_apps \cup c.error_apps

\* SteamAPICheckpoint.get_pending(all_app_ids): list(all_app_ids - processed),
\* the lists the iteration order of the set can give
api_get_pending(c, all_app_ids) == Orderings(all_app_ids \ api_processed(c))

\* the app lists SteamAPI.get_all_app_ids can return
AppLists == UNION {Orderings(S) : S \in SUBSET Ids}

\* SteamScraper(config): a new process constructs the scraper (_load_checkpoint)
APIStart ==
  /\ api.pc = "stopped"
  /\ runs < MaxRuns
  /\ runs' = runs + 1
  /\ \E tm \in BOOLEAN :
       LET existing == load(API_CHECKPOINT_NAME, "SteamAPICheckpoint")
       IN api' = IF tm
                 THEN [SteamScraper EXCEPT !.pc = "ready", !.test_mode = TRUE]
                 ELSE IF existing.kind = "raise" THEN SteamScraper
                 ELSE IF existing.kind = "value"
                 THEN [SteamScraper EXCEPT !.pc = "ready",
                                           !.checkpoint = existing.value]
                 ELSE [SteamScraper EXCEPT !.pc = "ready"]
  /\ UNCHANGED <<files, now>>
  /\ UNCHANGED api_frame

\* run() up to the loop: mark_started, the app list as the API gives it in
\* this run, the remaining ids
APIRunStart ==
  /\ api.pc = "ready"
  /\ \E all_apps \in AppLists :
       LET c == mark_started(api.checkpoint)
           all_app_ids == SeqToSet(all_apps)
       IN \E rem \in api_get_pending(c, all_app_ids) :
            api' = IF rem = <<>>
                   THEN [api EXCEPT !.checkpoint = c, !.all_apps = all_apps,
                                    !.all_app_ids = all_app_ids, !.pc = "done"]
                   ELSE [api EXCEPT !.checkpoint = c, !.all_apps = all_apps,
                                    !.all_app_ids = all_app_ids,
                                    !.remaining = IF api.test_mode
                                                  THEN Take(rem, test_limit)
                                                  ELSE rem,
                                    !.i = 1, !.pc = "fetch"]
  /\ now' = IF api.checkpoint.started_at = None THEN Tick ELSE now
  /\ UNCHANGED <<files, runs>>
  /\ UNCHANGED api_frame

\* what one HTTP exchange of SteamAPI.get_app_details can bring back
APIAnswers == {"200_data", "200_not_success", "200_missing", "429", "403",
               "other_status"}

\* `if i % checkpoint_interval == 0: self._save_checkpoint()`, else the sleep
APIAfterStep(a) ==
  IF a.i % checkpoint_interval = 0
  THEN [a EXCEPT !.pc = "save", !.ret = "sleep"]
  ELSE [a EXCEPT !.pc = "sleep"]

\* one call of get_app_details(appid): on 429 and 403 it sleeps and calls
\* itself again; any other answer comes back to the loop body, which files
\* the id
APIFetch ==
  /\ api.pc = "fetch"
  /\ api.calls < MaxCalls
  /\ \E ans \in APIAnswers :
       LET appid == api.remaining[api.i]
           c == api.checkpoint
           c1 == CASE ans \in {"200_missing", "other_status"} ->
                        [c EXCEPT !.error_apps = @ \cup {appid}]
                   [] ans = "200_not_success" ->
                        [c EXCEPT !.excluded_apps = @ \cup {appid}]
                   [] ans = "200_data" ->
                        [c EXCEPT !.apps_data = @ \cup {appid}]
                   [] OTHER -> c
       IN api' = IF ans \in {"429", "403"}
                 THEN [api EXCEPT !.calls = @ + 1]
                 ELSE APIAfterStep([api EXCEPT !.checkpoint = c1, !.calls = 0])
  /\ UNCHANGED <<files, now, runs>>
  /\ UNCHANGED api_frame

\* time.sleep(self.delay), then the next id or the end of the loop
APISleep ==
  /\ api.pc = "sleep"
  /\ api' = IF api.i < Len(api.remaining)
            THEN [api EXCEPT !.i = @ + 1, !.pc = "fetch"]
            ELSE [api EXCEPT !.pc = "save", !.ret = "summary"]
  /\ UNCHANGED <<files, now, runs>>
  /\ UNCHANGED api_frame

\* self._save_checkpoint(): CheckpointManager.save(CHECKPOINT_NAME, checkpoint)
APISave ==
  /\ api.pc = "save"
  /\ LET c == [api.checkpoint EXCEPT !.last_saved_at = now]
     IN /\ api' = [api EXCEPT !.checkpoint = c, !.pc = api.ret]
        /\ files' = [files EXCEPT ![API_CHECKPOINT_NAME] =
                       [exists |-> TRUE, bytes |-> Pickle(c)]]
  /\ now' = Tick
  /\ UNCHANGED runs
  /\ UNCHANGED api_frame

\* self._print_summary() in the finally block; run() returns
APISummary ==
  /\ api.pc = "summary"
  /\ api' = [api EXCEPT !.pc = "done", !.summary = TRUE]
  /\ UNCHANGED <<files, now, runs>>
  /\ UNCHANGED api_frame

\* KeyboardInterrupt inside the try block: `except KeyboardInterrupt`, finally
APIInterrupt ==
  /\ api.pc \in {"fetch", "sleep"} \/ (api.pc = "save" /\ api.ret = "sleep")
  /\ api' = [api EXCEPT !.pc = "save", !.ret = "summary", !.calls = 0]
  /\ UNCHANGED <<files, now, runs>>
  /\ UNCHANGED api_frame

\* the process is killed, or main() returns: its memory is gone
APIExit ==
  /\ api.pc # "stopped"
  /\ api' = SteamScraper
  /\ UNCHANGED <<files, now, runs>>
  /\ UNCHANGED api_frame

NextAPI ==
  \/ APIStart
  \/ APIRunStart
  \/ APIFetch
  \/ APISleep
  \/ APISave
  \/ APISummary
  \/ APIInterrupt
  \/ APIExit

SpecAPI == Init /\ [][NextAPI]_vars

\* =========================================================== insert_tags.py
\* the sequences over S of at most n elements
SeqsOf(S, n) == UNION {[1..m -> S] : m \in 0..n}

\* a python dict in insertion order, as the list of its (key, value) items:
\* d[k] = v replaces the value of a key in place and appends a new key
DictSet(d, k, v) ==
  IF \E n \in DOMAIN d : d[n][1] = k
  THEN [n \in DOMAIN d |-> IF d[n][1] = k THEN <<k, v>> ELSE d[n]]
  ELSE Append(d, <<k, v>>)

\* the state of prepare_data before the first record
TagsStart ==
  [tags |-> <<>>, game_tags |-> <<>>,
   apps_processed |-> 0, apps_skipped_no_tags |-> 0]

\* tag.get('count', 0)
Votes(tag) == IF tag.count = None THEN 0 ELSE tag.count

\* the id the junction row gets: the first id in `tags` carrying this name
\* if an id other than the tag's own carries it, else the tag's own id
TagCanonicalId(tags, tag) ==
  LET others == SelectSeq(tags, LAMBDA t : t[1] # tag.tagid)
      holders == SelectSeq(tags, LAMBDA t : t[2] = tag.name)
  IN IF \E n \in DOMAIN others : others[n][2] = tag.name
     THEN holders[1][1]
     ELSE tag.tagid

\* variant: the junction row keeps the id the tag came with
TagStep_RowKeepsOwnId(st, appid, scraped_at, tag) ==
  LET tagid == TagCanonicalId(st.tags, tag)
  IN [st EXCEPT !.tags = DictSet(@, tagid, tag.name),
                !.game_tags = Append(@, <<appid, tag.tagid, Votes(tag), scraped_at>>)]

\* the body of `for tag in tag_list`
TagStep(st, appid, scraped_at, tag) ==
  LET tagid == TagCanonicalId(st.tags, tag)
  IN [st EXCEPT !.tags = DictSet(@, tagid, tag.name),
                !.game_tags = Append(@, <<appid, tagid, Votes(tag), scraped_at>>)]

RECURSIVE TagLoop(_, _, _, _)
TagLoop(st, appid, scraped_at, tag_list) ==
  IF tag_list = <<>> THEN st
  ELSE TagLoop(TagStep(st, appid, scraped_at, Head(tag_list)),
               appid, scraped_at, Tail(tag_list))

\* a plausible slip: a record without tags is skipped without being counted
RECURSIVE TagRecordLoop_SkipUncounted(_, _)
TagRecordLoop_SkipUncounted(st, records) ==
  IF records = <<>> THEN st
  ELSE LET record == Head(records)
       IN TagRecordLoop_SkipUncounted(
            IF record.tags = <<>>
            THEN st
            ELSE TagLoop([st EXCEPT !.apps_processed = @ + 1],
                         record.appid, record.scraped_at, record.tags),
            Tail(records))

\* `for record in records`: a record without tags is counted and skipped
RECURSIVE TagRecordLoop(_, _)
TagRecordLoop(st, records) ==
  IF records = <<>> THEN st
  ELSE LET record == Head(records)
       IN TagRecordLoop(
            IF record.tags = <<>>
            THEN [st EXCEPT !.apps_skipped_no_tags = @ + 1]
            ELSE TagLoop([st EXCEPT !.apps_processed = @ + 1],
                         record.appid, record.scraped_at, record.tags),
            Tail(records))

\* a plausible slip: a later tuple of a key replaces the one kept
RECURSIVE dedupe_game_tags_KeepsLast(_, _, _)
dedupe_game_tags_KeepsLast(game_tags, seen, game_tags_deduped) ==
  IF game_tags = <<>> THEN game_tags_deduped
  ELSE LET gt == Head(game_tags)
           key == <<gt[1], gt[2]>>
       IN IF key \notin seen
          THEN dedupe_game_tags_KeepsLast(Tail(game_tags), seen \cup {key},
                                          Append(game_tags_deduped, gt))
          ELSE dedupe_game_tags_KeepsLast(
                 Tail(game_tags), seen,
                 [n \in DOMAIN game_tags_deduped |->
                    IF <<game_tags_deduped[n][1], game_tags_deduped[n][2]>> = key
                    THEN gt ELSE game_tags_deduped[n]])

\* the dedupe loop on (appid, tagid): the first tuple of a key is kept
RECURSIVE dedupe_game_tags(_, _, _)
dedupe_game_tags(game_tags, seen, game_tags_deduped) ==
  IF game_tags = <<>> THEN game_tags_deduped
  ELSE LET gt == Head(game_tags)
           key == <<gt[1], gt[2]>>
       IN IF key \notin seen
          THEN dedupe_game_tags(Tail(game_tags), seen \cup {key},
                                Append(game_tags_deduped, gt))
          ELSE dedupe_game_tags(Tail(game_tags), seen, game_tags_deduped)

\* insert_tags.prepare_data
tags_prepare_data(records) ==
  LET st == TagRecordLoop(TagsStart, records)
      game_tags_deduped == dedupe_game_tags(st.game_tags, {}, <<>>)
  IN [tags |-> st.tags,
      game_tags |-> game_tags_deduped,
      stats |-> [apps_processed |-> st.apps_processed,
                 apps_skipped_no_tags |-> st.apps_skipped_no_tags,
                 unique_tags |-> Len(st.tags),
                 total_game_tag_rows |-> Len(game_tags_deduped)]]

\* ==================================================== insert_app_details.py
\* int(genre['id']): the value of a string of decimal digits
RECURSIVE int(_)
int(digits) ==
  IF digits = <<>> THEN 0
  ELSE 10 * int(SubSeq(digits, 1, Len(digits) - 1)) + digits[Len(digits)]

\* d.get(k) of a dict kept as its list of items; the key is present
DictGet(d, k) == (CHOOSE p \in SeqToSet(d) : p[1] = k)[2]

\* ---- the scalar fields of a payload
\* a key the dict does not have, and a key whose value is null
Missing == [shape |-> "missing"]
Null == [shape |-> "null"]

\* a returned value, and an exception that leaves the function
Returned(value) == [raised |-> "none", value |-> value]
Raised(exception) == [raised |-> exception, value |-> <<>>]

\* a date as strftime("%Y-%m-%d") writes it, kept as <<year, month, day>>;
\* None is kept as the empty tuple
NoDate == <<>>

\* the tokens of a date text: a number, a month abbreviation (its number),
\* a comma, any other word
Num(v) == [kind |-> "num", v |-> v]
Mon(v) == [kind |-> "mon", v |-> v]
Comma == [kind |-> "comma", v |-> 0]
Word == [kind |-> "word", v |-> 0]

\* %d takes a number of one or two digits, %Y one of four, %b a month
IsDay(t) == t.kind = "num" /\ t.v \in 1..31
IsYear(t) == t.kind = "num" /\ t.v \in 1000..9999
IsMonth(t) == t.kind = "mon" /\ t.v \in 1..12

\* the days of a month, as datetime checks them
DaysIn(year, month) ==
  IF month = 2
  THEN IF (year % 4 = 0 /\ year % 100 # 0) \/ year % 400 = 0 THEN 29 ELSE 28
  ELSE IF month \in {4, 6, 9, 11} THEN 30 ELSE 31

\* datetime.strptime(date_str, fmt).strftime("%Y-%m-%d") for the fmt of
\* number n in `formats`; NoDate stands for ValueError
Strptime(text, n) ==
  LET date(y, m, d) == IF d <= DaysIn(y, m) THEN <<y, m, d>> ELSE NoDate
  IN CASE n = 1 ->  \* "%d %b, %Y"
            IF /\ Len(text) = 4 /\ IsDay(text[1]) /\ IsMonth(text[2])
               /\ text[3] = Comma /\ IsYear(text[4])
            THEN date(text[4].v, text[2].v, text[1].v) ELSE NoDate
       [] n = 2 ->  \* "%b %d, %Y"
            IF /\ Len(text) = 4 /\ IsMonth(text[1]) /\ IsDay(text[2])
               /\ text[3] = Comma /\ IsYear(text[4])
            THEN date(text[4].v, text[1].v, text[2].v) ELSE NoDate
       [] n = 3 ->  \* "%b %Y"
            IF Len(text) = 2 /\ IsMonth(text[1]) /\ IsYear(text[2])
            THEN date(text[2].v, text[1].v, 1) ELSE NoDate
       [] OTHER ->  \* "%Y"
            IF Len(text) = 1 /\ IsYear(text[1])
            THEN date(text[1].v, 1, 1) ELSE NoDate

\* parse_release_date: a falsy value gives None, a text the date of the first
\* format that takes it; strptime raises TypeError on a value that is no str
parse_release_date(date_str) ==
  CASE date_str.shape \in {"missing", "null"} -> Returned(NoDate)
    [] date_str.shape = "int" ->
         IF date_str.v = 0 THEN Returned(NoDate) ELSE Raised("TypeError")
    [] OTHER ->
         IF date_str.text = <<>> THEN Returned(NoDate)
         ELSE LET takes == {n \in 1..4 : Strptime(date_str.text, n) # NoDate}
              IN IF takes = {} THEN Returned(NoDate)
                 ELSE Returned(Strptime(date_str.text, Min(takes)))

\* the characters of a required_age string: an ASCII digit, a full-width
\* digit, any other character
Ascii(v) == [kind |-> "ascii", v |-> v]
FullWidth(v) == [kind |-> "fullwidth", v |-> v]
Letter == [kind |-> "letter", v |-> 0]

\* value.translate(str.maketrans(full-width digits, ASCII digits))
Translate(chars) ==
  [n \in DOMAIN chars |->
     IF chars[n].kind = "fullwidth" THEN Ascii(chars[n].v) ELSE chars[n]]

\* variant: a string int() refuses gives None
parse_required_age_NoneIfRefused(value) ==
  CASE value.shape \in {"missing", "null"} -> 0
    [] value.shape = "int" -> value.v
    [] value.shape = "bool" -> IF value.v THEN 1 ELSE 0
    [] value.shape = "str" ->
         LET normalized == Translate(value.text)
         IN IF normalized # <<>> /\ \A n \in DOMAIN normalized : normalized[n].kind = "ascii"
            THEN int([n \in DOMAIN normalized |-> normalized[n].v])
            ELSE None
    [] OTHER -> 0

\* parse_required_age: None gives 0, an int itself (a bool is an int: True is
\* 1), a string its value after the full-width digits are made ASCII or 0 if
\* int() refuses it, any other value 0
parse_required_age(value) ==
  CASE value.shape \in {"missing", "null"} -> 0
    [] value.shape = "int" -> value.v
    [] value.shape = "bool" -> IF value.v THEN 1 ELSE 0
    [] value.shape = "str" ->
         LET normalized == Translate(value.text)
         IN IF normalized # <<>> /\ \A n \in DOMAIN normalized : normalized[n].kind = "ascii"
            THEN int([n \in DOMAIN normalized |-> normalized[n].v])
            ELSE 0
    [] OTHER -> 0

\* d.get(key, {}) followed by .get(...): a missing key gives the empty dict,
\* whose fields are all missing; a value that is no dict has no .get
Nested(field) ==
  CASE field.shape = "missing" -> Returned([shape |-> "dict"])
    [] field.shape = "dict" -> Returned(field)
    [] OTHER -> Raised("AttributeError")

\* d.get(key, default) of a dict kept as a record: the default stands for a
\* key the dict does not have, a null value is kept
Get(d, key, default) ==
  IF key \in DOMAIN d /\ d[key].shape # "missing" THEN d[key] ELSE default

False == [shape |-> "bool", v |-> FALSE]

\* the tuple appended to games, or the exception of the first expression
\* that raises
GameRow(appid, raw) ==
  LET release_info == Nested(raw.release_date)
      release_date ==
        IF release_info.raised # "none" THEN release_info
        ELSE LET coming_soon == Get(release_info.value, "coming_soon", Null)
             IN IF coming_soon.shape = "bool" /\ coming_soon.v
                THEN Returned(NoDate)
                ELSE parse_release_date(Get(release_info.value, "date",
                                            [shape |-> "str", text |-> <<>>]))
      platforms == Nested(raw.platforms)
      metacritic == Nested(raw.metacritic)
      recommendations == Nested(raw.recommendations)
      first == <<release_date, platforms, metacritic, recommendations>>
      failed == {n \in DOMAIN first : first[n].raised # "none"}
  IN IF failed # {} THEN Raised(first[Min(failed)].raised)
     ELSE Returned(
            <<appid,
              Get(raw, "name", Null),
              Get(raw, "is_free", False),
              release_date.value,
              Get(release_info.value, "coming_soon", False),
              Get(platforms.value, "windows", False),
              Get(platforms.value, "mac", False),
              Get(platforms.value, "linux", False),
              Get(metacritic.value, "score", Null),
              Get(recommendations.value, "total", Null),
              parse_required_age(raw.required_age)>>)

\* a payload that is empty or None: it has no key at all
EmptyPayload ==
  [type |-> "none", genres |-> <<>>, categories |-> <<>>,
   developers |-> <<>>, publishers |-> <<>>,
   name |-> Missing, is_free |-> Missing, release_date |-> Missing,
   platforms |-> Missing, metacritic |-> Missing,
   recommendations |-> Missing, required_age |-> Missing]

\* the state of prepare_data before the first item
AppDetailsStart ==
  [games |-> <<>>, genres |-> <<>>, categories |-> <<>>,
   category_name_to_id |-> <<>>, developers |-> {}, publishers |-> {},
   game_genres |-> <<>>, game_categories |-> <<>>,
   game_developers |-> <<>>, game_publishers |-> <<>>, raised |-> "none"]

\* `for genre in raw.get('genres', [])`: the id of the item is stored and
\* referenced as it comes
RECURSIVE GenreLoop(_, _, _)
GenreLoop(st, appid, genres) ==
  IF genres = <<>> THEN st
  ELSE LET genre == Head(genres)
           gid == int(genre.id)
       IN GenreLoop([st EXCEPT !.genres = DictSet(@, gid, genre.description),
                               !.game_genres = Append(@, <<appid, gid>>)],
                    appid, Tail(genres))

\* `for cat in raw.get('categories', [])`: the first id of a name is kept
RECURSIVE CategoryLoop(_, _, _)
CategoryLoop(st, appid, categories) ==
  IF categories = <<>> THEN st
  ELSE LET cat == Head(categories)
           cid == cat.id
           name == cat.description
           known == \E n \in DOMAIN st.category_name_to_id :
                      st.category_name_to_id[n][1] = name
           registered ==
             IF known THEN st
             ELSE [st EXCEPT !.category_name_to_id = DictSet(@, name, cid),
                             !.categories = DictSet(@, cid, name)]
           canonical_id == DictGet(registered.category_name_to_id, name)
       IN CategoryLoop(
            [registered EXCEPT !.game_categories = Append(@, <<appid, canonical_id>>)],
            appid, Tail(categories))

\* `for dev in raw.get('developers', [])`
RECURSIVE DeveloperLoop(_, _, _)
DeveloperLoop(st, appid, developers) ==
  IF developers = <<>> THEN st
  ELSE LET dev == Head(developers)
       IN DeveloperLoop([st EXCEPT !.developers = @ \cup {dev},
                                   !.game_developers = Append(@, <<appid, dev>>)],
                        appid, Tail(developers))

\* `for pub in raw.get('publishers', [])`
RECURSIVE PublisherLoop(_, _, _)
PublisherLoop(st, appid, publishers) ==
  IF publishers = <<>> THEN st
  ELSE LET pub == Head(publishers)
       IN PublisherLoop([st EXCEPT !.publishers = @ \cup {pub},
                                   !.game_publishers = Append(@, <<appid, pub>>)],
                        appid, Tail(publishers))

\* a plausible slip: the gate looks at the emptiness of the payload only
RECURSIVE ItemLoop_TypeNotChecked(_, _)
ItemLoop_TypeNotChecked(st, items) ==
  IF items = <<>> \/ st.raised # "none" THEN st
  ELSE LET appid == Head(items)[1]
           raw == Head(items)[2]
           row == GameRow(appid, raw)
       IN ItemLoop_TypeNotChecked(
            IF raw = EmptyPayload THEN st
            ELSE IF row.raised # "none" THEN [st EXCEPT !.raised = row.raised]
            ELSE PublisherLoop(
                   DeveloperLoop(
                     CategoryLoop(
                       GenreLoop([st EXCEPT !.games = Append(@, row.value)],
                                 appid, raw.genres),
                       appid, raw.categories),
                     appid, raw.developers),
                   appid, raw.publishers),
            Tail(items))

\* `for appid, raw in data.items()`: an empty payload and a payload that is
\* not a game are skipped; an exception raised for an item ends the loop
RECURSIVE ItemLoop(_, _)
ItemLoop(st, items) ==
  IF items = <<>> \/ st.raised # "none" THEN st
  ELSE LET appid == Head(items)[1]
           raw == Head(items)[2]
           row == GameRow(appid, raw)
       IN ItemLoop(
            IF raw = EmptyPayload \/ raw.type # "game" THEN st
            ELSE IF row.raised # "none" THEN [st EXCEPT !.raised = row.raised]
            ELSE PublisherLoop(
                   DeveloperLoop(
                     CategoryLoop(
                       GenreLoop([st EXCEPT !.games = Append(@, row.value)],
                                 appid, raw.genres),
                       appid, raw.categories),
                     appid, raw.developers),
                   appid, raw.publishers),
            Tail(items))

\* insert_app_details.prepare_data(data); order.x is the order list(set) gives x
app_details_prepare_data(apps_data, order) ==
  LET st == ItemLoop(AppDetailsStart, apps_data)
  IN [games |-> st.games,
      genres |-> st.genres,
      categories |-> st.categories,
      developers |-> order.developers,
      publishers |-> order.publishers,
      game_genres |-> st.game_genres,
      game_categories |-> order.game_categories,
      game_developers |-> st.game_developers,
      game_publishers |-> st.game_publishers]

\* the orders list(set(...)) can give the three sets of prepare_data
ListOrders(apps_data) ==
  LET st == ItemLoop(AppDetailsStart, apps_data)
  IN [developers : Orderings(st.developers),
      publishers : Orderings(st.publishers),
      game_categories : Orderings(SeqToSet(st.game_categories))]

\* ======================================================== insert_reviews.py
\* scraped_at[:10] of an ISO timestamp, kept as <<date, time of day>>; None
\* for the empty string
SnapshotDate(scraped_at) == IF scraped_at = <<>> THEN None ELSE scraped_at[1]

\* review.get('count', 0)
ReviewCount(review) == IF review.count = None THEN 0 ELSE review.count

\* the state of prepare_data before the first record
ReviewsStart ==
  [game_reviews |-> <<>>, apps_processed |-> 0, apps_skipped_no_reviews |-> 0]

\* a plausible slip: the tuple of a language without reviews is kept
RECURSIVE ReviewLoop_KeepsEmptyLanguage(_, _, _, _)
ReviewLoop_KeepsEmptyLanguage(st, appid, snapshot_date, reviews_by_lang) ==
  IF reviews_by_lang = <<>> THEN st
  ELSE LET review == Head(reviews_by_lang)
           review_count == ReviewCount(review)
       IN ReviewLoop_KeepsEmptyLanguage(
            [st EXCEPT !.game_reviews =
               Append(@, <<appid, review.language, review_count,
                           review.score, review.score_numeric,
                           snapshot_date>>)],
            appid, snapshot_date, Tail(reviews_by_lang))

\* `for review in reviews_by_lang`: a language without reviews gives no tuple
RECURSIVE ReviewLoop(_, _, _, _)
ReviewLoop(st, appid, snapshot_date, reviews_by_lang) ==
  IF reviews_by_lang = <<>> THEN st
  ELSE LET review == Head(reviews_by_lang)
           review_count == ReviewCount(review)
       IN ReviewLoop(
            IF review_count = 0 THEN st
            ELSE [st EXCEPT !.game_reviews =
                    Append(@, <<appid, review.language, review_count,
                                review.score, review.score_numeric,
                                snapshot_date>>)],
            appid, snapshot_date, Tail(reviews_by_lang))

\* `for record in records`: a record without reviews is counted and skipped
RECURSIVE ReviewRecordLoop(_, _)
ReviewRecordLoop(st, records) ==
  IF records = <<>> THEN st
  ELSE LET record == Head(records)
       IN ReviewRecordLoop(
            IF record.reviews_by_language = <<>>
            THEN [st EXCEPT !.apps_skipped_no_reviews = @ + 1]
            ELSE ReviewLoop([st EXCEPT !.apps_processed = @ + 1], record.appid,
                            SnapshotDate(record.scraped_at),
                            record.reviews_by_language),
            Tail(records))

\* the dedupe loop on (appid, language, snapshot_date): the first tuple of a
\* key is kept
RECURSIVE dedupe_game_reviews(_, _, _)
dedupe_game_reviews(game_reviews, seen, game_reviews_deduped) ==
  IF game_reviews = <<>> THEN game_reviews_deduped
  ELSE LET gr == Head(game_reviews)
           key == <<gr[1], gr[2], gr[6]>>
       IN IF key \notin seen
          THEN dedupe_game_reviews(Tail(game_reviews), seen \cup {key},
                                   Append(game_reviews_deduped, gr))
          ELSE dedupe_game_reviews(Tail(game_reviews), seen, game_reviews_deduped)

\* insert_reviews.prepare_data
reviews_prepare_data(records) ==
  LET st == ReviewRecordLoop(ReviewsStart, records)
      game_reviews_deduped == dedupe_game_reviews(st.game_reviews, {}, <<>>)
  IN [game_reviews |-> game_reviews_deduped,
      stats |-> [apps_processed |-> st.apps_processed,
                 apps_skipped_no_reviews |-> st.apps_skipped_no_reviews,
                 total_review_rows |-> Len(game_reviews_deduped)]]

\* ------------------------------------------------ the loaders' inputs
\* the tags of steam_tags.jsonl: two ids of one name, one id of two names
TagRefs ==
  {[tagid |-> 10, name |-> "RPG", count |-> 1],
   [tagid |-> 99, name |-> "RPG", count |-> 2],
   [tagid |-> 10, name |-> "Action", count |-> 2]}

AppIds == {5, 6}

\* the records of steam_tags.jsonl
TagRecords ==
  [appid : AppIds, scraped_at : {<<1, 1>>, <<1, 2>>},
   tags : SeqsOf(TagRefs, MaxRefs)]

\* the entries of reviews_by_language: a language without reviews, and one
\* language under two counts and scores
ReviewRefs ==
  {[language |-> "english", count |-> 0, score |-> "No user reviews",
    score_numeric |-> None],
   [language |-> "english", count |-> 1, score |-> "Very Positive",
    score_numeric |-> 8],
   [language |-> "english", count |-> 2, score |-> "Mixed",
    score_numeric |-> 5]}

\* the records of the reviews file: two scrapes on one day, one on the next
ReviewRecords ==
  [appid : AppIds, scraped_at : {<<1, 1>>, <<1, 2>>, <<2, 1>>},
   reviews_by_language : SeqsOf(ReviewRefs, MaxRefs)]

\* the genres and categories of a payload: ids as the API gives them (genre
\* ids are strings of digits), two ids of one name included
GenreRefs == [id : {<<1, 0>>, <<9, 9>>}, description : {"RPG", "Action"}]
CategoryRefs == [id : {30, 51}, description : {"Co-op", "Online Co-op"}]
Companies == {"Valve", "Hidden Path"}

\* the payloads of the checkpoint's apps_data: the four reference loops of
\* an item share no state, so a payload carries references of one kind
Payloads ==
  {EmptyPayload} \cup
  {[EmptyPayload EXCEPT !.type = t, !.genres = g]
     : t \in {"game", "dlc"}, g \in SeqsOf(GenreRefs, MaxLookups)} \cup
  {[EmptyPayload EXCEPT !.type = t, !.categories = c]
     : t \in {"game", "dlc"}, c \in SeqsOf(CategoryRefs, MaxLookups)} \cup
  {[EmptyPayload EXCEPT !.type = t, !.developers = d]
     : t \in {"game", "dlc"}, d \in SeqsOf(Companies, MaxLookups)} \cup
  {[EmptyPayload EXCEPT !.type = t, !.publishers = d]
     : t \in {"game", "dlc"}, d \in SeqsOf(Companies, MaxLookups)}

\* apps_data as the list of its items: the keys of a dict differ
AppsData ==
  {d \in SeqsOf(AppIds \X Payloads, MaxRecords) :
     \A m, n \in DOMAIN d : d[m][1] = d[n][1] => m = n}

\* ------------------------------------------------ the loader processes
\* what a loader leaves alone: the scrapers and the checkpoint directory
loader_frame ==
  <<files, log, now, runs, handed, resp, pc, ret, how, test_mode, checkpoint,
    pending, i, attempt, data, response, durable, stored_before, legacy, api,
    pace>>

\* insert_tags.insert_batch: prepared = prepare_data(records)
PrepareTags ==
  /\ norm.pc = "loaded"
  /\ norm.source = "tags"
  /\ norm' = [norm EXCEPT !.pc = "prepared",
                          !.prepared = tags_prepare_data(norm.input)]
  /\ UNCHANGED loader_frame

\* insert_reviews.insert_batch: prepared = prepare_data(records)
PrepareReviews ==
  /\ norm.pc = "loaded"
  /\ norm.source = "reviews"
  /\ norm' = [norm EXCEPT !.pc = "prepared",
                          !.prepared = reviews_prepare_data(norm.input)]
  /\ UNCHANGED loader_frame

\* insert_app_details.insert_batch: prepared = prepare_data(data), or the
\* exception prepare_data raises ends the process
PrepareAppDetails ==
  /\ norm.pc = "loaded"
  /\ norm.source = "app_details"
  /\ LET raised == ItemLoop(AppDetailsStart, norm.input).raised
     IN IF raised # "none"
        THEN norm' = [norm EXCEPT !.pc = "raised", !.error = raised]
        ELSE \E order \in ListOrders(norm.input) :
               norm' = [norm EXCEPT !.pc = "prepared",
                                    !.prepared = app_details_prepare_data(norm.input, order)]
  /\ UNCHANGED loader_frame

\* a loader that has read its input: load_jsonl(path) / checkpoint.load
Loaded(source, input) ==
  [pc |-> "loaded", source |-> source, input |-> input, prepared |-> <<>>,
   error |-> "none", existing |-> {}, inserted |-> <<>>, skipped |-> 0]

\* no scraper runs while a loader does
ScrapersIdle ==
  /\ files = [n \in Names |-> NoFile]
  /\ log = <<>>
  /\ now = 0
  /\ runs = 0
  /\ handed = <<>>
  /\ resp = [id \in Ids |-> "free"]
  /\ pc = "stopped"
  /\ ret = "none"
  /\ how = "none"
  /\ test_mode = FALSE
  /\ checkpoint = StorePageCheckpoint
  /\ pending = <<>>
  /\ i = 0
  /\ attempt = 0
  /\ data = "none"
  /\ response = "none"
  /\ durable = FALSE
  /\ stored_before = [tracking |-> "none", app_ids |-> <<>>,
                      dir |-> [n \in Names |-> NoFile]]
  /\ legacy = LegacyScraper
  /\ api = SteamScraper

\* the two loaders of JSONL files, each on any of its inputs
InitJsonl ==
  /\ ScrapersIdle
  /\ pace = [pc |-> "none"]
  /\ \/ \E records \in SeqsOf(TagRecords, MaxRecords) :
          norm = Loaded("tags", records)
     \/ \E records \in SeqsOf(ReviewRecords, MaxRecords) :
          norm = Loaded("reviews", records)

NextJsonl ==
  \/ PrepareTags
  \/ PrepareReviews

SpecJsonl == InitJsonl /\ [][NextJsonl]_vars

\* the three loaders, each on any of its inputs
InitLoaders ==
  \/ InitJsonl
  \/ /\ ScrapersIdle
     /\ pace = [pc |-> "none"]
     /\ \E apps_data \in AppsData : norm = Loaded("app_details", apps_data)

NextLoaders ==
  \/ PrepareTags
  \/ PrepareReviews
  \/ PrepareAppDetails

SpecLoaders == InitLoaders /\ [][NextLoaders]_vars

\* ---- insert_batch of insert_tags.py and insert_reviews.py
\* check_foreign_keys: the appids among `appids` that the games table holds
check_foreign_keys(existing, appids) == appids \cap existing

\* the junction rows of the prepared data and the number the run reports as
\* skipped, for the games table `existing`
FilterJunction(rows, existing) ==
  LET appids == {rows[n][1] : n \in DOMAIN rows}
      valid_appids == check_foreign_keys(existing, appids)
      missing_appids == appids \ valid_appids
  IN [filtered |-> SelectSeq(rows, LAMBDA row : row[1] \in valid_appids),
      skipped |-> Cardinality(missing_appids)]

\* insert_tags.insert_batch(prepared, dry_run) on a games table that holds
\* the appids `existing`: a dry run inserts nothing
InsertTags ==
  /\ norm.pc = "prepared"
  /\ norm.source = "tags"
  /\ \E dry_run \in BOOLEAN, existing \in SUBSET AppIds :
       IF dry_run
       THEN norm' = [norm EXCEPT !.pc = "dry_run"]
       ELSE LET junction == FilterJunction(norm.prepared.game_tags, existing)
            IN norm' = [norm EXCEPT !.pc = "inserted",
                                    !.existing = existing,
                                    !.inserted = junction.filtered,
                                    !.skipped = junction.skipped]
  /\ UNCHANGED loader_frame

\* insert_reviews.insert_batch(prepared, dry_run)
InsertReviews ==
  /\ norm.pc = "prepared"
  /\ norm.source = "reviews"
  /\ \E dry_run \in BOOLEAN, existing \in SUBSET AppIds :
       IF dry_run
       THEN norm' = [norm EXCEPT !.pc = "dry_run"]
       ELSE LET junction == FilterJunction(norm.prepared.game_reviews, existing)
            IN norm' = [norm EXCEPT !.pc = "inserted",
                                    !.existing = existing,
                                    !.inserted = junction.filtered,
                                    !.skipped = junction.skipped]
  /\ UNCHANGED loader_frame

NextInsert ==
  \/ PrepareTags
  \/ PrepareReviews
  \/ InsertTags
  \/ InsertReviews

SpecInsert == InitJsonl /\ [][NextInsert]_vars

\* ---- insert_app_details on payloads that differ in their scalar fields
PyStr(text) == [shape |-> "str", text |-> text]
PyInt(v) == [shape |-> "int", v |-> v]
True == [shape |-> "bool", v |-> TRUE]

\* a release_date dict with the date text `text`
ReleaseDate(text) == [shape |-> "dict", coming_soon |-> False, date |-> PyStr(text)]

\* a game without any further key
Game == [EmptyPayload EXCEPT !.type = "game"]

\* the payloads of a batch: payloads that fail the gate (with references
\* and a null field of their own), well-formed games, games with a
\* malformed scalar field
GamePayloads ==
  {EmptyPayload,
   [EmptyPayload EXCEPT !.type = "dlc",
      !.genres = <<[id |-> <<1, 0>>, description |-> "RPG"]>>,
      !.categories = <<[id |-> 30, description |-> "Co-op"]>>,
      !.developers = <<"Valve">>, !.publishers = <<"Valve">>,
      !.release_date = Null],
   Game,
   [Game EXCEPT !.genres = <<[id |-> <<9, 9>>, description |-> "RPG"]>>,
      !.developers = <<"Hidden Path">>,
      !.release_date = ReleaseDate(<<Num(21), Mon(11), Comma, Num(2006)>>),
      !.platforms = [shape |-> "dict", windows |-> True],
      !.required_age = PyStr(<<FullWidth(1), FullWidth(8)>>)],
   [Game EXCEPT
      !.release_date = ReleaseDate(<<Mon(11), Num(21), Comma, Num(2006)>>),
      !.required_age = PyInt(18)],
   [Game EXCEPT !.release_date = ReleaseDate(<<Mon(11), Num(2006)>>),
      !.required_age = PyStr(<<Ascii(1), Ascii(8), Letter>>)],
   [Game EXCEPT !.release_date = ReleaseDate(<<Num(2006)>>),
      !.required_age = Null],
   [Game EXCEPT !.release_date = ReleaseDate(<<Word, Word>>),
      !.required_age = [shape |-> "list"]],
   [Game EXCEPT !.release_date = ReleaseDate(<<Num(30), Mon(2), Comma, Num(2006)>>)],
   [Game EXCEPT !.release_date =
      [shape |-> "dict", coming_soon |-> True, date |-> PyInt(2006)]],
   [Game EXCEPT !.release_date = [shape |-> "dict", date |-> PyInt(2006)]],
   [Game EXCEPT !.release_date = [shape |-> "dict", date |-> Null]],
   [Game EXCEPT !.release_date = Null],
   [Game EXCEPT !.release_date = PyStr(<<Num(2006)>>)],
   [Game EXCEPT !.platforms = Null],
   [Game EXCEPT !.metacritic = Null]}

\* the keys of apps_data
GameIds == {5, 6, 7}

\* the key lists of apps_data: up to MaxRecords keys, all different
GameKeys ==
  {s \in SeqsOf(GameIds, MaxRecords) : \A m, n \in DOMAIN s : s[m] = s[n] => m = n}

\* apps_data as the list of its items: each key with a payload
InitGames ==
  /\ ScrapersIdle
  /\ pace = [pc |-> "none"]
  /\ \E ids \in GameKeys :
       \E payloads \in [DOMAIN ids -> GamePayloads] :
         norm = Loaded("app_details", [n \in DOMAIN ids |-> <<ids[n], payloads[n]>>])

NextGames == PrepareAppDetails

SpecGames == InitGames /\ [][NextGames]_vars

\* ====================================================== harvest-state claims
Done(c) == c.completed_ids \cup c.no_data_ids \cup keys(c.failed_ids)

\* C1: in every reachable state of a harvest run, for any universe handed to
\* the scraper (repeated ids included) and any sequence of fetch outcomes,
\* completed_ids, no_data_ids and the keys of failed_ids are pairwise disjoint.
C1_PartitionsDisjoint ==
  /\ checkpoint.completed_ids \cap checkpoint.no_data_ids = {}
  /\ checkpoint.completed_ids \cap keys(checkpoint.failed_ids) = {}
  /\ checkpoint.no_data_ids \cap keys(checkpoint.failed_ids) = {}

\* C2: once a save under the name has completed, a later save that is
\* interrupted or crashes never leaves a truncated, empty or unreadable file:
\* whenever no process is running, load(name) returns a value in full.
C2_SaveAtomic ==
  (pc = "stopped" /\ durable) => load(CHECKPOINT_NAME, "None").kind = "value"


\* the loop of run() carried through without interruption, each id
\* classified by the pinned result of its fetch
RECURSIVE RunLoop(_, _, _)
RunLoop(c, p, k) ==
  IF k > Len(p) THEN c
  ELSE LET appid == p[k]
           d == resp[appid]
           c1 == IF d = "payload"
                 THEN [c EXCEPT !.completed_ids = @ \cup {appid}]
                 ELSE IF d = "no_data" THEN Classified(c, appid, "no_data")
                 ELSE IF d = "fatal" THEN Classified(c, appid, "Request error")
                 ELSE c
       IN RunLoop(c1, p, k + 1)

Uninterrupted(u) ==
  LET c0 == [StorePageCheckpoint EXCEPT !.app_ids_to_scrape = u]
  IN RunLoop(c0, get_pending(c0), 1)

Membership(c) == <<c.completed_ids, c.no_data_ids, keys(c.failed_ids)>>

\* C3: with a fixed universe and a fixed fetch result per id, a run that was
\* interrupted (any number of times) and resumed from the saved checkpoint
\* until nothing is pending ends with the completed / excluded / failed
\* membership of one uninterrupted run.
C3_Resumable ==
  (pc = "done" /\ how \in {"exhausted", "interrupted", "noop"}
     /\ get_pending(checkpoint) = <<>>)
    => /\ checkpoint.app_ids_to_scrape = handed
       /\ Membership(checkpoint) = Membership(Uninterrupted(handed))

\* a resumed run finished the universe <<1, 2, 3>> of which an earlier,
\* unfinished run had already classified and saved two ids
C3_Resumed ==
  /\ pc = "done" /\ how = "exhausted" /\ ~test_mode /\ runs = 2
  /\ handed = <<1, 2, 3>>
  /\ Len(pending) = 1
  /\ get_pending(checkpoint) = <<>>

\* C5: a run in test mode leaves the checkpoint stored under the job's
\* checkpoint name unchanged: after the test run, load(CHECKPOINT_NAME)
\* returns what it returned before the test run.
C5_TestRunLeavesCheckpoint ==
  (/\ pc = "done" /\ test_mode
   /\ LoadFrom(stored_before.dir, CHECKPOINT_NAME, "StorePageCheckpoint").kind
        = "value")
    => LoadFrom(files, CHECKPOINT_NAME, "None")
         = LoadFrom(stored_before.dir, CHECKPOINT_NAME, "None")

\* C6: terminal outcomes are one-way: an id in completed, excluded or failed
\* never leaves its partition and is never fetched again, neither later in
\* the same run nor in a run resumed from the saved checkpoint.
C6_OneWay ==
  [][/\ (pc # "stopped" /\ pc' # "stopped")
          => /\ checkpoint.completed_ids \subseteq checkpoint'.completed_ids
             /\ checkpoint.no_data_ids \subseteq checkpoint'.no_data_ids
             /\ keys(checkpoint.failed_ids) \subseteq keys(checkpoint'.failed_ids)
     /\ (pc # "fetch" /\ pc' = "fetch")
          => pending'[i'] \notin Done(checkpoint')]_vars

AfterBody == pc = "sleep" \/ (pc \in {"save_open", "save_dump"} /\ ret = "sleep")

\* C7: one step classifies the id by the result of its fetch: a payload puts
\* it in completed with its record in the output log, the no-data signal in
\* excluded, a fatal transport error in failed with the error's description;
\* universe <<1, 2, 3>> with payload / no-data / fatal ends with
\* completed = {1}, excluded = {2}, failed = {3: reason}, nothing pending.
C7_Classification ==
  /\ AfterBody =>
       LET appid == pending[i]
       IN /\ resp[appid] = "payload" =>
               appid \in checkpoint.completed_ids /\ appid \in SeqToSet(log)
          /\ resp[appid] = "no_data" => appid \in checkpoint.no_data_ids
          /\ resp[appid] = "fatal" =>
               /\ appid \in keys(checkpoint.failed_ids)
               /\ checkpoint.failed_ids[appid] \in Reasons
  /\ (/\ pc = "done" /\ how = "exhausted" /\ ~test_mode
      /\ handed = <<1, 2, 3>>
      /\ resp[1] = "payload" /\ resp[2] = "no_data" /\ resp[3] = "fatal")
       => /\ checkpoint.completed_ids = {1}
          /\ checkpoint.no_data_ids = {2}
          /\ keys(checkpoint.failed_ids) = {3}
          /\ checkpoint.failed_ids[3] \in Reasons
          /\ get_pending(checkpoint) = <<>>

\* the end-to-end scenario has run to its end
C7_Scenario ==
  /\ pc = "done" /\ how = "exhausted" /\ ~test_mode
  /\ handed = <<1, 2, 3>>
  /\ resp[1] = "payload" /\ resp[2] = "no_data" /\ resp[3] = "fatal"
  /\ checkpoint.completed_ids = {1}
  /\ checkpoint.no_data_ids = {2}
  /\ keys(checkpoint.failed_ids) = {3}
  /\ log = <<1>>

\* C8: a fetch that ends in an unclassified failure (retry budget exhausted,
\* or a non-retryable error status other than not-found) is recorded in
\* failed with a reason, not in excluded, and the run goes on to the next id.
C8_UnclassifiedIsFailed ==
  [][(/\ pc = "got"
      /\ response = "other_status" \/ data = "Max retries exceeded"
      /\ pc' \in {"sleep", "save_open"} /\ how' = how)
       => /\ pending[i] \in keys(checkpoint'.failed_ids)
          /\ checkpoint'.failed_ids[pending[i]] \in Reasons
          /\ checkpoint'.no_data_ids = checkpoint.no_data_ids]_vars

\* C9: load(name) after save(name, S) returns a value equal to S, timestamps
\* included, and after any sequence of saves under one name load returns the
\* value of the last save.
C9_RoundTrip ==
  (pc = "summary" \/ (pc = "sleep" /\ i % checkpoint_interval = 0))
    => load(CHECKPOINT_NAME, "StorePageCheckpoint")
         = [kind |-> "value", value |-> checkpoint]

\* a second process has just saved a state with every field filled in
C9_Saved ==
  /\ pc = "summary" /\ runs = 2
  /\ checkpoint.completed_ids # {}
  /\ checkpoint.no_data_ids # {}
  /\ keys(checkpoint.failed_ids) # {}
  /\ checkpoint.started_at # None
  /\ checkpoint.last_saved_at > checkpoint.started_at
  /\ Unpickle(files[CHECKPOINT_NAME].bytes) = checkpoint

Mismatch ==
  /\ files[CHECKPOINT_NAME].exists
  /\ Readable(files[CHECKPOINT_NAME].bytes)
  /\ Unpickle(files[CHECKPOINT_NAME].bytes).type # "StorePageCheckpoint"

\* C10: load(name) returns None exactly when no checkpoint is stored under
\* name; with an expected type and a stored value of another type load fails
\* with a TypeError instead of returning the value, and a scraper that loads
\* such a checkpoint stops at load time instead of starting from an empty state.
C10_LoadContract ==
  /\ [](/\ load(CHECKPOINT_NAME, "None").kind = "None"
             <=> ~files[CHECKPOINT_NAME].exists
        /\ load(CHECKPOINT_NAME, "StorePageCheckpoint").kind = "None"
             <=> ~files[CHECKPOINT_NAME].exists
        /\ Mismatch =>
             load(CHECKPOINT_NAME, "StorePageCheckpoint")
               = [kind |-> "raise", error |-> "TypeError"])
  /\ [][(pc = "stopped" /\ runs' = runs + 1 /\ Mismatch /\ ~test_mode')
          => /\ pc' = "stopped"
             /\ how' = "TypeError"
             /\ checkpoint' = StorePageCheckpoint
             /\ files' = files]_vars

\* a scraper was started on a checkpoint holding a dict and stopped at load
C10_StoppedAtLoad ==
  /\ pc = "stopped" /\ how = "TypeError" /\ runs > 0
  /\ Mismatch


\* C4: whenever a run that has entered its fetch loop returns, by exhausting
\* the pending ids or by a KeyboardInterrupt arriving at any step, the
\* checkpoint store holds the harvest state as it was when the loop stopped:
\* every id classified during the run is in the saved state.
C4_SavedOnReturn ==
  (/\ legacy.pc \in {"done", "interrupted"}
   /\ ~legacy.test_mode
   /\ legacy.i > 0)
    => /\ legacy.apps_data \subseteq LegacyLoad("apps_data")
       /\ legacy.excluded_apps \subseteq LegacyLoad("excluded_apps")
       /\ legacy.error_apps \subseteq LegacyLoad("error_apps")

\* C11: the universe is assigned once: a process that is not in test mode and
\* was constructed on a stored checkpoint with a non-empty universe works on
\* that universe, in content and order, whatever app_ids argument it was
\* constructed with, and no step of a running process changes a universe
\* that is set.
C11_UniverseAssignedOnce ==
  [][/\ (/\ pc = "stopped" /\ pc' # "stopped" /\ ~test_mode'
          /\ load(CHECKPOINT_NAME, "StorePageCheckpoint").kind = "value"
          /\ load(CHECKPOINT_NAME, "StorePageCheckpoint").value.app_ids_to_scrape
               # <<>>)
         => checkpoint'.app_ids_to_scrape
              = load(CHECKPOINT_NAME, "StorePageCheckpoint").value.app_ids_to_scrape
     /\ (/\ pc # "stopped" /\ pc' # "stopped" /\ ~test_mode
          /\ checkpoint.app_ids_to_scrape # <<>>)
         => checkpoint'.app_ids_to_scrape = checkpoint.app_ids_to_scrape]_vars

\* a process constructed with another list works on the stored universe
C11_OtherArgument ==
  /\ pc = "fetch" /\ ~test_mode /\ runs = 2
  /\ stored_before.app_ids # <<>>
  /\ stored_before.app_ids # checkpoint.app_ids_to_scrape
  /\ checkpoint.app_ids_to_scrape # <<>>
  /\ processed(checkpoint) > 0

\* C12: in every state of a run, pending, completed, excluded and failed
\* together are the universe the run is working on: every id in a terminal
\* partition is a universe id, every universe id is pending or terminal.
C12_PartitionsCoverUniverse ==
  api.pc \in {"fetch", "sleep", "save", "summary"}
    => \A rem \in api_get_pending(api.checkpoint, api.all_app_ids) :
         SeqToSet(rem) \cup api_processed(api.checkpoint) = api.all_app_ids

\* the ids the running scraper has classified that the checkpoint stored
\* under its name does not hold
Unsaved ==
  LET stored == load(CHECKPOINT_NAME, "StorePageCheckpoint")
  IN Done(checkpoint) \ (IF stored.kind = "value" THEN Done(stored.value) ELSE {})

\* C13: the harvest state is saved whenever checkpoint_interval ids have been
\* processed since the last save: at no point of a run are more than
\* checkpoint_interval processed ids absent from the stored checkpoint.
C13_UnsavedBounded ==
  pc \notin {"stopped", "ready"} => Cardinality(Unsaved) <= checkpoint_interval

\* C14: the fetch of one id terminates: whatever the server answers, 429, 403
\* or timeouts for ever included, the fetch function makes at most max_retries
\* requests for the id and then returns or raises.
C14_BoundedAttempts ==
  /\ attempt < max_retries
  /\ api.calls <= max_retries

\* C15: when a checkpoint save fails with an I/O error during the fetch loop,
\* the error leaves run(): from the failed save on, the process fetches and
\* classifies no further id and appends no record, and it ends with the error.
C15_SaveFailureStops ==
  [][(pc # "stopped" /\ how = "OSError")
       => /\ pc' \in {"save_open", "save_dump", "summary", "done", "stopped"}
          /\ how' = "OSError" \/ pc' = "stopped"
          /\ Done(checkpoint') \subseteq Done(checkpoint)
          /\ log' = log]_vars

\* a run was ended by the failure of a periodic save with ids left to fetch
C15_EndedBySaveFailure ==
  /\ pc = "done" /\ how = "OSError"
  /\ i < Len(pending)
  /\ get_pending(checkpoint) # <<>>

\* the number of records of appid in the output file
Records(appid) == Cardinality({n \in DOMAIN log : log[n] = appid})

\* C16: the output log holds exactly one record per completed id: after any
\* runs, interruptions, crashes and resumes no id has two records, and an id
\* in completed has its record. (Stated for a universe without repeated ids.)
C16_OneRecordPerId ==
  (\A m, n \in DOMAIN handed : handed[m] = handed[n] => m = n)
    => /\ \A appid \in Ids : Records(appid) <= 1
       /\ \A appid \in checkpoint.completed_ids : Records(appid) >= 1

\* ===================================================== normalization claims
\* the lookup references of the tags file in input order: (appid, id, name)
RECURSIVE TagInputRefs(_)
TagInputRefs(records) ==
  IF records = <<>> THEN <<>>
  ELSE LET record == Head(records)
       IN [n \in DOMAIN record.tags |->
             <<record.appid, record.tags[n].tagid, record.tags[n].name>>]
          \o TagInputRefs(Tail(records))

\* the genre references of the items that pass the gate, in input order
RECURSIVE GenreInputRefs(_)
GenreInputRefs(items) ==
  IF items = <<>> THEN <<>>
  ELSE LET appid == Head(items)[1]
           raw == Head(items)[2]
       IN (IF raw.type # "game" THEN <<>>
           ELSE [n \in DOMAIN raw.genres |->
                   <<appid, int(raw.genres[n].id), raw.genres[n].description>>])
          \o GenreInputRefs(Tail(items))

\* the category references of the items that pass the gate, in input order
RECURSIVE CategoryInputRefs(_)
CategoryInputRefs(items) ==
  IF items = <<>> THEN <<>>
  ELSE LET appid == Head(items)[1]
           raw == Head(items)[2]
       IN (IF raw.type # "game" THEN <<>>
           ELSE [n \in DOMAIN raw.categories |->
                   <<appid, raw.categories[n].id, raw.categories[n].description>>])
          \o CategoryInputRefs(Tail(items))

\* the id presented by the first reference to `name`
FirstId(refs, name) ==
  refs[Min({k \in DOMAIN refs : refs[k][3] = name})][2]

\* the junction rows are those of the references, each under the first id
\* of its name
Canonical(refs, rows) ==
  {<<rows[n][1], rows[n][2]>> : n \in DOMAIN rows}
    = {<<refs[k][1], FirstId(refs, refs[k][3])>> : k \in DOMAIN refs}

\* C17: canonicalization: for every input, the junction rows of the lookup
\* references that carry one name all reference one numeric id, the id
\* presented by the first reference to this name in the input (genres,
\* categories and tags).
C17_FirstSeenIdIsCanonical ==
  norm.pc = "prepared" =>
    /\ norm.source = "tags" =>
         Canonical(TagInputRefs(norm.input), norm.prepared.game_tags)
    /\ norm.source = "app_details" =>
         /\ Canonical(CategoryInputRefs(norm.input), norm.prepared.game_categories)
         /\ Canonical(GenreInputRefs(norm.input), norm.prepared.game_genres)

\* no two rows of a lookup table carry one name
UniqueNames(table) ==
  \A m, n \in DOMAIN table : table[m][2] = table[n][2] => m = n

\* C18: in the output of prepare_data every lookup table (genres, categories,
\* tags) has a unique natural key: no two rows of one table carry one name.
C18_LookupNamesUnique ==
  norm.pc = "prepared" =>
    /\ norm.source = "tags" => UniqueNames(norm.prepared.tags)
    /\ norm.source = "app_details" =>
         /\ UniqueNames(norm.prepared.categories)
         /\ UniqueNames(norm.prepared.genres)

\* no two rows of a junction table agree on the key columns
UniqueKeys(rows, columns) ==
  \A m, n \in DOMAIN rows :
    (\A c \in columns : rows[m][c] = rows[n][c]) => m = n

\* C19: no junction table of the pipeline holds two rows of one full key:
\* game_genres, game_categories, game_developers, game_publishers and
\* game_tags on their two columns, game_reviews on (appid, language,
\* snapshot_date), also when an item references one lookup value twice.
C19_JunctionKeysUnique ==
  norm.pc = "prepared" =>
    /\ norm.source = "tags" => UniqueKeys(norm.prepared.game_tags, {1, 2})
    /\ norm.source = "reviews" => UniqueKeys(norm.prepared.game_reviews, {1, 2, 6})
    /\ norm.source = "app_details" =>
         /\ UniqueKeys(norm.prepared.game_categories, {1, 2})
         /\ UniqueKeys(norm.prepared.game_genres, {1, 2})
         /\ UniqueKeys(norm.prepared.game_developers, {1, 2})
         /\ UniqueKeys(norm.prepared.game_publishers, {1, 2})

\* the rows kept are, key by key, the first tuples of the keys
FirstKept(tuples, rows, columns) ==
  LET SameKey(a, b) == \A c \in columns : a[c] = b[c]
  IN /\ \A n \in DOMAIN rows :
          rows[n] = tuples[Min({k \in DOMAIN tuples : SameKey(tuples[k], rows[n])})]
     /\ \A k \in DOMAIN tuples : \E n \in DOMAIN rows : SameKey(tuples[k], rows[n])

FirstEncounter(emitted, row, columns) ==
  Min({k \in DOMAIN emitted : \A c \in columns : emitted[k][c] = row[c]})

\* the rows stand in the order in which the input first presented them
EncounterOrder(rows, emitted, columns) ==
  \A m, n \in DOMAIN rows :
    m < n => FirstEncounter(emitted, rows[m], columns)
               <= FirstEncounter(emitted, rows[n], columns)

\* a list of names as a table of one column
Column(names) == [n \in DOMAIN names |-> <<names[n]>>]

\* the second column of a junction table: the names it references
Referenced(rows) == [n \in DOMAIN rows |-> <<rows[n][2]>>]

\* C21: output ordering is deterministic: in every output table of
\* prepare_data (games, genres, categories, developers, publishers and the
\* junction tables) the rows stand in the order of their first encounter in
\* the input, so two calls on one input give the same row sequences.
C21_FirstEncounterOrder ==
  norm.pc = "prepared" =>
    /\ norm.source = "tags" =>
         LET st == TagRecordLoop(TagsStart, norm.input)
         IN /\ EncounterOrder(norm.prepared.game_tags, st.game_tags, {1, 2})
            /\ EncounterOrder(norm.prepared.tags, Referenced(st.game_tags), {1})
    /\ norm.source = "app_details" =>
         LET st == ItemLoop(AppDetailsStart, norm.input)
         IN /\ EncounterOrder(norm.prepared.games, st.games, {1})
            /\ EncounterOrder(norm.prepared.genres, Referenced(st.game_genres), {1})
            /\ EncounterOrder(norm.prepared.categories,
                              Referenced(st.game_categories), {1})
            /\ EncounterOrder(norm.prepared.game_genres, st.game_genres, {1, 2})
            /\ EncounterOrder(norm.prepared.game_developers, st.game_developers, {1, 2})
            /\ EncounterOrder(norm.prepared.game_publishers, st.game_publishers, {1, 2})
            /\ EncounterOrder(Column(norm.prepared.developers),
                              Referenced(st.game_developers), {1})
            /\ EncounterOrder(Column(norm.prepared.publishers),
                              Referenced(st.game_publishers), {1})
            /\ EncounterOrder(norm.prepared.game_categories,
                              st.game_categories, {1, 2})

\* the items of a batch that pass the entity-kind gate
PassesGate(raw) == raw # EmptyPayload /\ raw.type = "game"
GameItems(items) == SelectSeq(items, LAMBDA item : PassesGate(item[2]))

\* C22: an item that fails the entity-kind gate (empty payload or a type
\* other than 'game') is skipped without error and contributes no row to any
\* output table; the other items of the batch are processed as if it were
\* absent: the outcome is the outcome on the batch without the skipped items.
C22_SkippedAsAbsent ==
  /\ norm.pc = "prepared" =>
       \E order \in ListOrders(GameItems(norm.input)) :
         norm.prepared = app_details_prepare_data(GameItems(norm.input), order)
  /\ norm.pc = "raised" =>
       norm.error = ItemLoop(AppDetailsStart, GameItems(norm.input)).raised

\* a batch was prepared whose first item fails the gate with references and
\* a null field of its own, and whose second item is a game
C22_SkippedBeforeGame ==
  /\ norm.pc = "prepared"
  /\ Len(norm.input) = 2
  /\ norm.input[1][2].type = "dlc"
  /\ norm.input[1][2].genres # <<>>
  /\ norm.input[2][2].genres # <<>>
  /\ Len(norm.prepared.games) = 1
  /\ Len(norm.prepared.game_genres) = 1

\* C23: a malformed scalar field of an item (a release date in no known
\* format, a release date or required-age value of an unexpected shape, a
\* missing or null nested field) degrades to a null or default value of that
\* field only: prepare_data never raises and emits the game row of every
\* item that passes the gate.
C23_MalformedFieldDegrades ==
  /\ norm.pc # "raised"
  /\ norm.pc = "prepared" =>
       [n \in DOMAIN norm.prepared.games |-> norm.prepared.games[n][1]]
         = [n \in DOMAIN GameItems(norm.input) |-> GameItems(norm.input)[n][1]]

\* the junction rows the prepared data holds
JunctionRows ==
  IF norm.source = "tags" THEN norm.prepared.game_tags
  ELSE norm.prepared.game_reviews

\* C24: before junction rows are inserted they are filtered against the set
\* of currently valid parent keys: every inserted game_tags / game_reviews
\* row has an appid in the valid set, and the number reported as skipped is
\* the number of junction rows that were rejected.
C24_FilteredAndCounted ==
  norm.pc = "inserted" =>
    /\ \A n \in DOMAIN norm.inserted : norm.inserted[n][1] \in norm.existing
    /\ norm.skipped = Len(JunctionRows) - Len(norm.inserted)

\* C25: a run started on a state whose pending set is already empty performs
\* no fetch, changes no partition and still ends by emitting the partition
\* summary; every run that returns, by exhaustion, by interruption or as
\* this no-op, has emitted the summary.
C25_RunEndsWithSummary ==
  api.pc = "done" =>
    /\ api.summary
    /\ api.remaining = <<>> =>
         api_processed(api.checkpoint) \cap api.all_app_ids = api.all_app_ids

C27_ExistsAndDelete ==
  [][/\ pc' = "stopped" => (exists(CHECKPOINT_NAME)' <=> durable')
     /\ (pc = "stopped" /\ durable /\ ~durable')
          => /\ ~exists(CHECKPOINT_NAME)'
             /\ load(CHECKPOINT_NAME, "None")' = [kind |-> "None"]
             /\ \A name \in Names \ {CHECKPOINT_NAME} :
                  files'[name] = files[name]]_vars

\* C28: after any sequence of save and delete operations on one store,
\* list_checkpoints returns exactly the set of names that were saved and
\* not deleted since. Observed between the processes of the job, whose
\* store holds the one name CHECKPOINT_NAME.
C28_ListIsSavedNotDeleted ==
  pc = "stopped" =>
    list_checkpoints = IF durable THEN {CHECKPOINT_NAME} ELSE {}

\* the terminal partitions of checkpoint c that hold appid
Partitions(c, appid) ==
  {name \in {"completed_ids", "no_data_ids", "failed_ids"} :
     \/ name = "completed_ids" /\ appid \in c.completed_ids
     \/ name = "no_data_ids" /\ appid \in c.no_data_ids
     \/ name = "failed_ids" /\ appid \in keys(c.failed_ids)}

\* C29: marking an id into a terminal partition while it is already in a
\* different terminal partition is rejected: no step of a run puts an id
\* that is in one partition into a second one or moves it to another.
C29_CrossMarkRejected ==
  [][(pc # "stopped" /\ pc' # "stopped")
       => \A appid \in Ids :
            Partitions(checkpoint, appid) # {}
              => Partitions(checkpoint', appid)
                   = Partitions(checkpoint, appid)]_vars

\* the ids of the list universe that are in no partition of done, in the
\* order they have in universe
PendingInOrder(universe, done) ==
  SelectSeq(universe, LAMBDA appid : appid \notin done)

\* C30: get_pending returns exactly the universe ids that are in no terminal
\* partition, in the relative order they have in the universe, and the fetch
\* loop attempts ids in exactly that order; a test-mode cap of N processes
\* the first N pending ids of the universe.
C30_PendingInUniverseOrder ==
  [][(api.pc = "ready" /\ api'.pc = "fetch")
       => api'.remaining =
            IF api'.test_mode
            THEN Take(PendingInOrder(api'.all_apps,
                                     api_processed(api'.checkpoint)),
                      test_limit)
            ELSE PendingInOrder(api'.all_apps,
                                api_processed(api'.checkpoint))]_vars

\* ================================== steam_store_scraper_v2.py: request pacing
\* times are in milliseconds
\* ScraperConfig.requests_per_minute and ScraperConfig.retry_delay (seconds)
RequestBudgets == {1, 50, 60}
RetryDelays == {0, 1, 60}

\* SteamStoreScraper.__init__: self.delay = 60 / config.requests_per_minute
delay(requests_per_minute) == 60000 \div requests_per_minute

\* the time.sleep of get_store_data after answer ans: retry_delay after a 429,
\* 300 s after a 403, 10 s after a timeout
ForbiddenWait == 300
TimeoutWait == 10
RetrySleep(ans, retry_delay) ==
  CASE ans = "429" -> 1000 * retry_delay
    [] ans = "403" -> 1000 * ForbiddenWait
    [] ans = "Timeout" -> 1000 * TimeoutWait
    [] OTHER -> 0

PaceFrame ==
  <<files, log, now, runs, handed, resp, pc, ret, how, test_mode, checkpoint,
    pending, i, attempt, data, response, durable, stored_before, legacy, api,
    norm>>

\* a run about to fetch the first of `left` ids under a configuration;
\* since is the time slept since the last request went out, gap the time
\* between the last two requests (None: there were not two yet)
InitRate ==
  /\ ScrapersIdle
  /\ norm = [pc |-> "none"]
  /\ \E rpm \in RequestBudgets, rd \in RetryDelays, n \in 1..MaxLen :
       pace = [pc |-> "request", requests_per_minute |-> rpm,
               retry_delay |-> rd, left |-> n, attempt |-> 0, requests |-> 0,
               since |-> None, gap |-> None]

\* self.session.get(url) of get_store_data and what follows the answer up to
\* the next request: the sleep of a retry, or the return to run() and its
\* time.sleep(self.delay); after the last attempt the sleep of the retry is
\* followed by the raise and the sleep of run()
PaceRequest ==
  /\ pace.pc = "request"
  /\ \E ans \in Answers :
       LET d == get_store_data(pace.attempt, ans)
           slept == RetrySleep(ans, pace.retry_delay)
           sent == [pace EXCEPT !.gap = pace.since,
                                !.requests = IF @ < 2 THEN @ + 1 ELSE @]
       IN pace' =
            IF d = "retry"
            THEN [sent EXCEPT !.attempt = @ + 1, !.since = slept]
            ELSE [sent EXCEPT !.attempt = 0,
                              !.since = slept + delay(pace.requests_per_minute),
                              !.left = @ - 1,
                              !.pc = IF pace.left = 1 THEN "done"
                                     ELSE "request"]
  /\ UNCHANGED PaceFrame

NextRate == PaceRequest

SpecRate == InitRate /\ [][NextRate]_vars

\* C31: between any two consecutive HTTP requests of a run, a request and
\* its retry after a 429, 403 or timeout included, at least the configured
\* spacing 60 / requests_per_minute elapses, for every configuration of
\* retry_delay and request budget.
C31_SpacingHonored ==
  (pace.pc # "none" /\ pace.gap # None)
    => pace.gap >= delay(pace.requests_per_minute)

\* ---- parse_required_age on the values a payload can carry
\* the digits a required_age string is written with
AgeDigits == {0, 1, 8}
AgeChars ==
  {Ascii(v) : v \in AgeDigits} \cup {FullWidth(v) : v \in AgeDigits}
    \cup {Letter}

\* a float and a list: values that are neither None, int nor str
PyFloat == [shape |-> "float"]
PyList == [shape |-> "list"]

InitAge ==
  /\ ScrapersIdle
  /\ pace = [pc |-> "none"]
  /\ \/ \E text \in SeqsOf(AgeChars, MaxLen) :
          norm = Loaded("required_age", PyStr(text))
     \/ \E v \in {0, 18} : norm = Loaded("required_age", PyInt(v))
     \/ \E value \in {True, False} : norm = Loaded("required_age", value)
     \/ \E value \in {Null, PyFloat, PyList} :
          norm = Loaded("required_age", value)

\* parse_required_age(raw.get('required_age'))
ParseAge ==
  /\ norm.pc = "loaded"
  /\ norm.source = "required_age"
  /\ norm' = [norm EXCEPT !.pc = "prepared",
                          !.prepared = parse_required_age(norm.input)]
  /\ UNCHANGED loader_frame

NextAge == ParseAge

SpecAge == InitAge /\ [][NextAge]_vars

\* the number a sequence of digit glyphs writes, ASCII or full-width alike
RECURSIVE Written(_, _)
Written(chars, acc) ==
  IF chars = <<>> THEN acc
  ELSE Written(Tail(chars), 10 * acc + Head(chars).v)

AllDigits(chars) ==
  chars # <<>> /\ \A n \in DOMAIN chars : chars[n].kind \in {"ascii", "fullwidth"}

\* C32: parse_required_age maps a string of digits to its integer value,
\* full-width digit glyphs counting as the ASCII digits (the full-width
\* string for 18 gives 18), and maps every value that cannot be parsed as an
\* integer (a non-numeric string, null, a value of another type) to 0.
C32_RequiredAgeCoerced ==
  (norm.pc = "prepared" /\ norm.source = "required_age") =>
    CASE norm.input.shape = "str" /\ AllDigits(norm.input.text) ->
           norm.prepared = Written(norm.input.text, 0)
      [] norm.input.shape \in {"str", "null", "float", "list"} ->
           norm.prepared = 0
      [] OTHER -> TRUE

\* the full-width string for 18 has been parsed
C32_FullWidthEighteen ==
  /\ norm.pc = "prepared"
  /\ norm.source = "required_age"
  /\ norm.input = PyStr(<<FullWidth(1), FullWidth(8)>>)
  /\ norm.prepared = 18

\* C33: an id whose fetch is cut short by the KeyboardInterrupt is placed in
\* no terminal partition: the interrupt leaves the partitions as they are,
\* the id is still pending in the checkpoint saved on exit, and it is fetched
\* again on resume.
C33_InterruptedIdStaysPending ==
  [][(pc = "fetch" /\ pc' = "save_open" /\ how' = "interrupted")
       => /\ checkpoint' = checkpoint
          /\ pending[i] \in SeqToSet(get_pending(checkpoint'))]_vars

\* C34: in every reachable state of the checkpoint the derived counter
\* remaining (total minus processed) equals the length of get_pending() and
\* is never negative, for any universe (repeated ids included) and any
\* sequence of steps and resumes.
C34_RemainingIsPending ==
  /\ remaining(checkpoint) = Len(get_pending(checkpoint))
  /\ remaining(checkpoint) >= 0

\* C35: when save(name, data) fails with an I/O error, nothing observable
\* changes: the checkpoint stored under name is the one of the last
\* successful save, and the in-memory data.last_saved_at still holds the
\* time of the last successful save.
C35_FailedSaveChangesNothing ==
  [][(pc \in {"save_open", "save_dump"} /\ how # "OSError" /\ how' = "OSError")
       => /\ (pc = "save_open" /\ ret = "sleep")
               => /\ files' = files
                  /\ checkpoint'.last_saved_at = checkpoint.last_saved_at
          /\ durable => load(CHECKPOINT_NAME, "None")'.kind = "value"]_vars

\* ---- the loaders on inputs that share lookup values across items
\* a game with references of one kind, at most MaxRefs of them
RefPayloads ==
  {[Game EXCEPT !.genres = g] : g \in SeqsOf(GenreRefs, MaxRefs)} \cup
  {[Game EXCEPT !.categories = c] : c \in SeqsOf(CategoryRefs, MaxRefs)} \cup
  {[Game EXCEPT !.developers = d] : d \in SeqsOf(Companies, MaxRefs)} \cup
  {[Game EXCEPT !.publishers = d] : d \in SeqsOf(Companies, MaxRefs)}

\* the key lists of apps_data over AppIds
RefKeys == UNION {Orderings(S) : S \in SUBSET AppIds}

InitRefs ==
  /\ ScrapersIdle
  /\ pace = [pc |-> "none"]
  /\ \/ \E records \in SeqsOf(TagRecords, MaxRecords) :
          norm = Loaded("tags", records)
     \/ \E ids \in RefKeys :
          \E payloads \in [DOMAIN ids -> RefPayloads] :
            norm = Loaded("app_details",
                          [n \in DOMAIN ids |-> <<ids[n], payloads[n]>>])

NextRefs ==
  \/ PrepareTags
  \/ PrepareAppDetails

SpecRefs == InitRefs /\ [][NextRefs]_vars

\* every row of junction names in its column `at` a member of parents
RefersInto(junction, at, parents) ==
  \A n \in DOMAIN junction : junction[n][at] \in parents

\* the ids of the rows of a lookup table
LookupIds(lookup) == {lookup[n][1] : n \in DOMAIN lookup}

\* C36: referential integrity of the prepared row set: each lookup id
\* referenced by a junction row of prepare_data (game_genres,
\* game_categories, game_tags) is the id of a row of the matching lookup
\* table of the same output, and each name in game_developers /
\* game_publishers is in developers / publishers.
C36_ReferentialIntegrity ==
  norm.pc = "prepared" =>
    IF norm.source = "tags"
    THEN RefersInto(norm.prepared.game_tags, 2, LookupIds(norm.prepared.tags))
    ELSE /\ RefersInto(norm.prepared.game_genres, 2,
                       LookupIds(norm.prepared.genres))
         /\ RefersInto(norm.prepared.game_categories, 2,
                       LookupIds(norm.prepared.categories))
         /\ RefersInto(norm.prepared.game_developers, 2,
                       SeqToSet(norm.prepared.developers))
         /\ RefersInto(norm.prepared.game_publishers, 2,
                       SeqToSet(norm.prepared.publishers))

\* a tag came with an id other than the one its name is stored under, and
\* its junction row references the stored id
C36_RowOfCanonicalTag ==
  /\ norm.pc = "prepared"
  /\ norm.source = "tags"
  /\ \E m \in DOMAIN norm.input :
       \E n \in DOMAIN norm.input[m].tags :
         /\ norm.input[m].tags[n].tagid = 99
         /\ <<99, "RPG">> \notin SeqToSet(norm.prepared.tags)
  /\ \E n \in DOMAIN norm.prepared.game_tags :
       norm.prepared.game_tags[n][1] = 6 /\ norm.prepared.game_tags[n][2] = 10

\* ------------------------------------------------------------------- C37
\* C37: the stats insert_tags.prepare_data returns account for the whole
\* input: apps_processed + apps_skipped_no_tags is the number of input
\* records, unique_tags is the number of rows of tags, and
\* total_game_tag_rows is the number of rows of game_tags.
C37_TagStatsAccountForInput ==
  (norm.pc = "prepared" /\ norm.source = "tags")
    => LET stats == norm.prepared.stats
       IN /\ stats.apps_processed + stats.apps_skipped_no_tags
               = Len(norm.input)
          /\ stats.apps_processed
               = Cardinality({n \in DOMAIN norm.input :
                                norm.input[n].tags # <<>>})
          /\ stats.unique_tags = Len(norm.prepared.tags)
          /\ stats.total_game_tag_rows = Len(norm.prepared.game_tags)

\* a file with a record without tags and a record with one
C37_OneSkippedOneProcessed ==
  /\ norm.pc = "prepared"
  /\ norm.source = "tags"
  /\ norm.prepared.stats.apps_skipped_no_tags = 1
  /\ norm.prepared.stats.apps_processed = 1
  /\ norm.prepared.stats.total_game_tag_rows = 1

\* ------------------------------------------------------------------- C38
\* the entries of reviews_by_language, one without a 'count' key included
CountRefs ==
  ReviewRefs \cup
  {[language |-> "german", count |-> None, score |-> "Positive",
    score_numeric |-> 7]}

\* the records of the reviews file, scraped on one day: reviews_by_language
\* is <<>> for a record whose list is empty, null or absent
CountRecords ==
  [appid : AppIds, scraped_at : {<<1, 1>>},
   reviews_by_language : SeqsOf(CountRefs, MaxRefs)]

InitCounts ==
  /\ ScrapersIdle
  /\ pace = [pc |-> "none"]
  /\ \E records \in SeqsOf(CountRecords, MaxRecords) :
       norm = Loaded("reviews", records)

NextCounts == PrepareReviews

SpecCounts == InitCounts /\ [][NextCounts]_vars

\* the entries of record n that have reviews
Reviewed(n) ==
  {k \in DOMAIN norm.input[n].reviews_by_language :
     norm.input[n].reviews_by_language[k].count \notin {0, None}}

\* C38: insert_reviews.prepare_data emits no row for a language without
\* reviews: no row of game_reviews has a review_count that is zero or
\* missing, every row is an entry with reviews of a record of its appid, and
\* the records whose reviews_by_language is empty or absent are the ones
\* counted in apps_skipped_no_reviews.
C38_NoRowWithoutReviews ==
  (norm.pc = "prepared" /\ norm.source = "reviews")
    => LET game_reviews == norm.prepared.game_reviews
           stats == norm.prepared.stats
       IN /\ \A r \in DOMAIN game_reviews :
               /\ game_reviews[r][3] \notin {0, None}
               /\ \E n \in DOMAIN norm.input : \E k \in Reviewed(n) :
                    LET review == norm.input[n].reviews_by_language[k]
                    IN /\ game_reviews[r][1] = norm.input[n].appid
                       /\ game_reviews[r][2] = review.language
                       /\ game_reviews[r][3] = review.count
          /\ stats.apps_skipped_no_reviews
               = Cardinality({n \in DOMAIN norm.input :
                                norm.input[n].reviews_by_language = <<>>})
          /\ stats.apps_processed + stats.apps_skipped_no_reviews
               = Len(norm.input)

\* a record without reviews_by_language and a record whose only language has
\* no 'count': one skipped, one processed, no row
C38_SkippedRecordAndCountlessLanguage ==
  /\ norm.pc = "prepared"
  /\ norm.source = "reviews"
  /\ Len(norm.input) = 2
  /\ norm.input[1].reviews_by_language = <<>>
  /\ Len(norm.input[2].reviews_by_language) = 1
  /\ norm.input[2].reviews_by_language[1].count = None
  /\ norm.prepared.stats.apps_skipped_no_reviews = 1
  /\ norm.prepared.game_reviews = <<>>

\* ------------------------------------------------------------------- C39
\* the partitions load_progress of the next run reads from the three files
LoadedPartitions ==
  [apps_data |-> LegacyLoad("apps_data"),
   excluded_apps |-> LegacyLoad("excluded_apps"),
   error_apps |-> LegacyLoad("error_apps")]

\* C39: the legacy scraper persists its three partitions as three separate
\* checkpoints; when the process has stopped, between two of the three saves
\* included, the partitions the next run loads are pairwise disjoint and
\* contain no id that was never processed.
C39_LoadedPartitionsDisjoint ==
  legacy.pc \in {"stopped", "done", "interrupted"}
    => LET l == LoadedPartitions
       IN /\ l.apps_data \cap l.excluded_apps = {}
          /\ l.apps_data \cap l.error_apps = {}
          /\ l.excluded_apps \cap l.error_apps = {}
          /\ (l.apps_data \cup l.excluded_apps \cup l.error_apps)
               \subseteq legacy.fetched

====
